---- MODULE Spec2Model ----
(***************************************************************************)
(* Authentication and session core of the API: the OTP-mode controller     *)
(* (auth.controller.js, user.controller.js), the token service, the bearer *)
(* middlewares and the users table they share.                             *)
(*                                                                         *)
(* Time is the wall clock in whole seconds.  A JWT is the record of what   *)
(* its string encodes (signing secret, payload); HS256 signing is          *)
(* deterministic, so two tokens are the same string exactly when the       *)
(* records are equal.  A nullable column is <<>> (null) or <<v>>.          *)
(***************************************************************************)
EXTENDS Integers, Sequences, FiniteSets, TLC

\* ---------------------------------------------------------------- bounds
MaxTicks == 1

\* ------------------------------------------------------ program constants
OTP_EXPIRY_MINUTES == 5
OTP_RATE_LIMIT_SECONDS == 60
MAX_OTP_ATTEMPTS == 5
REFRESH_TOKEN_EXPIRY_DAYS == 7
OTP_CLEANUP_DAYS == 1
TOKEN_CLEANUP_DAYS == 30

SecondsPerDay == 24 * 60 * 60
\* config.jwt.accessExpiry '15m' and config.jwt.refreshExpiry '7d', in seconds
accessExpiry == 15 * 60
refreshExpiry == 7 * SecondsPerDay

Null == <<>>
Some(v) == <<v>>

\* The codes generateOTP can draw (two of the 900000), which are also the
\* numbers a client can type.
Otps == {"111111", "222222"}
Phones == {"+15551234567"}
NewPhones == Phones \cup {"+15557654321"}

\* The primary keys User.create can hand out.  phone_number is UNIQUE over
\* all rows, deleted or not, so the table never holds more rows than there
\* are phone numbers.
UserIds == {"u1"}

\* req.body.firstName: absent, or a name.
Names == {Null, Some("Asha")}

\* How far the clock moves between two requests.
TickSteps == {1, OTP_RATE_LIMIT_SECONDS, refreshExpiry}

VARIABLES
  now,      \* Date.now() in seconds
  ticks,    \* clock steps taken so far
  cfg,      \* config.jwt: the signing secrets
  users,    \* the users table: [id -> <<>> or <<row>>]
  held,     \* the token pairs a client still holds
  res,      \* the response to the last request handled
  streak,   \* consecutive wrong codes or passwords: [op, uid, n]
  inflight, \* requests suspended at an await: [slot -> request]
  admins,   \* the admins table: [id -> <<>> or <<row>>]
  adminHeld,      \* the admin access tokens a client was handed
  refresh_tokens, \* the refresh_tokens table of the password flow
  entities,       \* the content tables: [kind -> [id -> <<>> or <<row>>]]
  limits,         \* the stores of the rate limiters: [limiter -> [key -> entry]];
                  \* an entry also tells how many of its hits began a registration
  thrown          \* the error handed to the error handler, and NODE_ENV

vars == <<now, ticks, cfg, users, held, res, streak, inflight,
          admins, adminHeld, refresh_tokens, entities, limits, thrown>>

\* What the account and session routes leave alone.
rest == <<entities, limits, thrown>>

\* The tables of the admin side and of the password flow, and the rest.
others == <<admins, adminHeld, refresh_tokens, rest>>

\* The content tables.
Kinds == {"district", "taluka", "category", "post", "news"}

EntityIds == {"e1"}

\* The rate limiters of security.middleware.js and the client keys (req.ip).
Limiters == {"authLimiter", "registerLimiter"}

Ips == {"10.0.0.1", "10.0.0.2"}

\* No content yet, and no request counted.
InitRest ==
  /\ entities = [k \in Kinds |-> [i \in EntityIds |-> Null]]
  /\ limits = [l \in Limiters |->
                 [k \in Ips |-> [totalHits |-> 0, resetTime |-> 0, registrations |-> 0]]]
  /\ thrown = Null

Slots == {1, 2}

\* The consecutive wrong passwords that are counted.
WrongPasswords == 5

\* ------------------------------------------------------------------- JWT
\* jwt.sign(payload, secret, {expiresIn}): iat is the clock second.
jwtSign(secret, kind, id, typ, aud, ttl) ==
  [sec |-> secret, kind |-> kind, id |-> id, typ |-> typ, aud |-> aud,
   iat |-> now, exp |-> now + ttl]

\* A string that is no token signed by this deployment.
forgedToken ==
  [sec |-> "forged", kind |-> "user", id |-> "u1", typ |-> "none", aud |-> FALSE,
   iat |-> 0, exp |-> refreshExpiry * (MaxTicks + 2)]

\* jwt.verify(token, secret, options): signature, then expiry, then audience
\* and issuer when the options ask for them.
jwtVerify(token, secret, audience) ==
  IF token.sec # secret THEN "JsonWebTokenError"
  ELSE IF now >= token.exp THEN "TokenExpiredError"
  ELSE IF audience /\ ~token.aud THEN "JsonWebTokenError"
  ELSE "ok"

\* auth.controller.js generateTokens
generateTokens(userId) ==
  [accessToken  |-> jwtSign(cfg.accessSecret, "user", userId, "none", FALSE, accessExpiry),
   refreshToken |-> jwtSign(cfg.refreshSecret, "user", userId, "none", FALSE, refreshExpiry)]

\* token.service.js
generateAccessToken(userId) ==
  jwtSign(cfg.accessSecret, "user", userId, "access", TRUE, accessExpiry)

generateRefreshToken(userId) ==
  jwtSign(cfg.refreshSecret, "user", userId, "refresh", TRUE, refreshExpiry)

verifyAccessToken(token) ==
  LET v == jwtVerify(token, cfg.accessSecret, TRUE) IN
  IF v = "TokenExpiredError" THEN "Token expired"
  ELSE IF v = "JsonWebTokenError" THEN "Invalid token"
  ELSE IF token.typ # "access" THEN "Invalid token type"
  ELSE "ok"

verifyRefreshToken(token) ==
  LET v == jwtVerify(token, cfg.refreshSecret, TRUE) IN
  IF v = "TokenExpiredError" THEN "Refresh token expired"
  ELSE IF v = "JsonWebTokenError" THEN "Invalid refresh token"
  ELSE IF token.typ # "refresh" THEN "Invalid token type"
  ELSE "ok"

\* ------------------------------------------------------------- users table
Ids == {i \in UserIds : users[i] # Null}

row(id) == users[id][1]

\* User.create with isVerified: true in place of isVerified: false.
newUser_verified(phoneNumber, firstName, otp, expiresAt) ==
  [phoneNumber |-> phoneNumber, firstName |-> firstName, email |-> Null,
   password |-> Null, isActive |-> TRUE, isVerified |-> TRUE,
   lastLogin |-> Null, refreshToken |-> Null, refreshTokenExpiresAt |-> Null,
   refreshTokenRevokedAt |-> Null, currentOtp |-> Some(otp),
   otpExpiresAt |-> Some(expiresAt), otpAttempts |-> 0, otpIsUsed |-> FALSE,
   deletedAt |-> Null, updatedAt |-> now]

\* User.create({phoneNumber, currentOtp, otpExpiresAt, ...}) with the model's
\* defaults.
newUser(phoneNumber, firstName, otp, expiresAt) ==
  [phoneNumber |-> phoneNumber, firstName |-> firstName, email |-> Null,
   password |-> Null, isActive |-> TRUE, isVerified |-> FALSE,
   lastLogin |-> Null, refreshToken |-> Null, refreshTokenExpiresAt |-> Null,
   refreshTokenRevokedAt |-> Null, currentOtp |-> Some(otp),
   otpExpiresAt |-> Some(expiresAt), otpAttempts |-> 0, otpIsUsed |-> FALSE,
   deletedAt |-> Null, updatedAt |-> now]

rowInsert(table, id, r) ==
  [table EXCEPT ![id] = Some(r)]

\* instance.update(values) and User.update(values, {where: {id}}): the named
\* columns and updated_at of the row with that id are written.
rowUpdate(table, id, values) ==
  [table EXCEPT ![id] = Some(values @@ [updatedAt |-> now] @@ @[1])]

\* instance.increment('otpAttempts'): otp_attempts = otp_attempts + 1 in the
\* database, updated_at with it.
rowIncrement(table, id) ==
  [table EXCEPT ![id] = Some([@[1] EXCEPT !.otpAttempts = @ + 1, !.updatedAt = now])]

\* findByPhone without the deletedAt filter.
findByPhone_includesDeleted(phoneNumber) ==
  LET hit == {i \in Ids : row(i).phoneNumber = phoneNumber} IN
  IF hit = {} THEN Null ELSE Some(CHOOSE i \in hit : TRUE)

\* User.findOne({where: {phoneNumber, deletedAt: null}})
findByPhone(phoneNumber) ==
  LET hit == {i \in Ids : row(i).phoneNumber = phoneNumber /\ row(i).deletedAt = Null} IN
  IF hit = {} THEN Null ELSE Some(CHOOSE i \in hit : TRUE)

\* User.findOne({where: {id, deletedAt: null}}) and the SQL findUserById
findById(id) ==
  IF id \in Ids /\ row(id).deletedAt = Null THEN Some(id) ELSE Null

\* The column-level UNIQUE of phone_number: no second row with the number,
\* deleted or not.
phoneTaken(phoneNumber) ==
  \E i \in Ids : row(i).phoneNumber = phoneNumber

\* ---------------------------------------------------------------- replies
Reply(op, phone, uid, status, msg) ==
  [op |-> op, phone |-> phone, uid |-> uid, status |-> status, msg |-> msg,
   otp |-> Null, tok |-> Null, accessToken |-> Null, refreshToken |-> Null,
   cookie |-> "kept", userId |-> "none", adminId |-> "none", sms |-> "none",
   email |-> "none", password |-> Null, data |-> {}, ip |-> "none", fault |-> FALSE]

VerifyOps == {"verifyRegisterOTP", "verifyLoginOTP", "verifyPhoneUpdateOTP",
              "reactivateAccount", "deleteAccount"}

IssueOps == {"sendRegisterOTP", "sendLoginOTP", "resendOTP", "sendPhoneUpdateOTP",
             "sendDeleteAccountOTP"}

\* Consecutive wrong codes for one user and operation, and consecutive wrong
\* passwords for one account.
nextStreak(r) ==
  IF IF r.op \in VerifyOps THEN r.msg = "Invalid OTP"
     ELSE r.op = "loginUser" /\ r.uid # "none" /\ r.msg = "Invalid email or password"
  THEN IF streak.op = r.op /\ streak.uid = r.uid
       THEN [streak EXCEPT !.n = IF @ > (IF r.op = "loginUser" THEN WrongPasswords
                                         ELSE MAX_OTP_ATTEMPTS)
                                   THEN @ ELSE @ + 1]
       ELSE [op |-> r.op, uid |-> r.uid, n |-> 1]
  ELSE [op |-> "none", uid |-> "none", n |-> 0]

\* What the client keeps of the pairs it was handed: the controller's latest
\* pair (.ctl), the pair that one replaced (.prev), the token service's
\* latest pair (.svc); and (.old) the refresh tokens it had been handed when
\* the last logout-all completed, until the next completed OTP verification.
keep(r, tokens) ==
  LET h == IF r.op = "logoutAll" /\ r.status = 200
             THEN [held EXCEPT !.old = {p[1].refreshToken : p \in {held.ctl, held.prev, held.svc} \ {Null}}]
           ELSE IF r.op \in {"verifyRegisterOTP", "verifyLoginOTP"} /\ r.status \in {200, 201}
             THEN [held EXCEPT !.old = {}]
           ELSE held IN
  IF tokens = Null THEN h
  ELSE IF tokens[1].accessToken.typ = "access" THEN [h EXCEPT !.svc = tokens]
  ELSE IF tokens = h.ctl THEN h
  ELSE [h EXCEPT !.ctl = tokens, !.prev = h.ctl]

\* A request brought to its response; tokens is the pair the response
\* carries, <<>> when it carries none, and fl the requests still suspended.
Respond(r, table, tokens, fl) ==
  /\ res' = r
  /\ users' = table
  /\ held' = keep(r, tokens)
  /\ streak' = nextStreak(r)
  /\ inflight' = fl
  /\ UNCHANGED <<now, ticks, cfg, others>>

\* A request handled to its response in one step.
Finish(r, table, tokens) ==
  Respond(r, table, tokens, inflight)

\* ------------------------------------------------------------ OTP helpers
\* checkOTPRateLimit comparing the milliseconds of the difference of two
\* dates with the limit in seconds.
checkOTPRateLimit_millis(user) ==
  IF user.otpExpiresAt = Null THEN 0
  ELSE LET timeSinceLastOtp == (now - user.updatedAt) * 1000 IN
       IF timeSinceLastOtp < OTP_RATE_LIMIT_SECONDS
       THEN OTP_RATE_LIMIT_SECONDS - timeSinceLastOtp
       ELSE 0

\* auth.controller.js checkOTPRateLimit: the seconds to wait, 0 when the
\* request may go on.
checkOTPRateLimit(user) ==
  IF user.otpExpiresAt = Null THEN 0
  ELSE LET timeSinceLastOtp == now - user.updatedAt IN
       IF timeSinceLastOtp < OTP_RATE_LIMIT_SECONDS
       THEN OTP_RATE_LIMIT_SECONDS - timeSinceLastOtp
       ELSE 0

\* validateOTP without the test of otpIsUsed.
validateOTP_noUsedCheck(user, otp) ==
  IF user.currentOtp = Null \/ user.otpExpiresAt = Null
    THEN [status |-> 401, msg |-> "No OTP found", ok |-> FALSE]
  ELSE IF user.otpAttempts >= MAX_OTP_ATTEMPTS
    THEN [status |-> 429, msg |-> "Too many failed attempts", ok |-> FALSE]
  ELSE IF now > user.otpExpiresAt[1]
    THEN [status |-> 401, msg |-> "OTP expired", ok |-> FALSE]
  ELSE [status |-> 0, msg |-> "none", ok |-> user.currentOtp = Some(otp)]

\* validateOTP with the ceiling test off by one (> for >=).
validateOTP_ceilingOffByOne(user, otp) ==
  IF user.currentOtp = Null \/ user.otpExpiresAt = Null
    THEN [status |-> 401, msg |-> "No OTP found", ok |-> FALSE]
  ELSE IF user.otpIsUsed
    THEN [status |-> 401, msg |-> "OTP already used", ok |-> FALSE]
  ELSE IF user.otpAttempts > MAX_OTP_ATTEMPTS
    THEN [status |-> 429, msg |-> "Too many failed attempts", ok |-> FALSE]
  ELSE IF now > user.otpExpiresAt[1]
    THEN [status |-> 401, msg |-> "OTP expired", ok |-> FALSE]
  ELSE [status |-> 0, msg |-> "none", ok |-> user.currentOtp = Some(otp)]

\* validateOTP with the expiry test moved ahead of the used and ceiling tests.
validateOTP_expiryFirst(user, otp) ==
  IF user.currentOtp = Null \/ user.otpExpiresAt = Null
    THEN [status |-> 401, msg |-> "No OTP found", ok |-> FALSE]
  ELSE IF now > user.otpExpiresAt[1]
    THEN [status |-> 401, msg |-> "OTP expired", ok |-> FALSE]
  ELSE IF user.otpIsUsed
    THEN [status |-> 401, msg |-> "OTP already used", ok |-> FALSE]
  ELSE IF user.otpAttempts >= MAX_OTP_ATTEMPTS
    THEN [status |-> 429, msg |-> "Too many failed attempts", ok |-> FALSE]
  ELSE [status |-> 0, msg |-> "none", ok |-> user.currentOtp = Some(otp)]

\* auth.controller.js validateOTP: the error it throws ("none" when it
\* returns) and the value it returns.
validateOTP(user, otp) ==
  IF user.currentOtp = Null \/ user.otpExpiresAt = Null
    THEN [status |-> 401, msg |-> "No OTP found", ok |-> FALSE]
  ELSE IF user.otpIsUsed
    THEN [status |-> 401, msg |-> "OTP already used", ok |-> FALSE]
  ELSE IF user.otpAttempts >= MAX_OTP_ATTEMPTS
    THEN [status |-> 429, msg |-> "Too many failed attempts", ok |-> FALSE]
  ELSE IF now > user.otpExpiresAt[1]
    THEN [status |-> 401, msg |-> "OTP expired", ok |-> FALSE]
  ELSE IF user.currentOtp # Some(otp)
    THEN [status |-> 0, msg |-> "none", ok |-> FALSE]
  ELSE [status |-> 0, msg |-> "none", ok |-> TRUE]

\* The OTP write of the issuing handlers with the expiry left out.
otpValues_noExpiry(otp) ==
  [currentOtp |-> Some(otp), otpExpiresAt |-> Null, otpAttempts |-> 0, otpIsUsed |-> FALSE]

\* The columns every OTP-issuing handler writes in its one user.update.
otpValues(otp) ==
  [currentOtp |-> Some(otp), otpExpiresAt |-> Some(now + OTP_EXPIRY_MINUTES * 60),
   otpAttempts |-> 0, otpIsUsed |-> FALSE]

\* sendOTP: the SMS collaborator answers or throws; a throw becomes a 500
\* after the row has been written.
smsReply(r, smsOk) ==
  IF smsOk THEN [r EXCEPT !.sms = "sent"]
  ELSE [r EXCEPT !.status = 500, !.msg = "Failed to send OTP", !.sms = "failed"]

\* sendRegisterOTP without the test of isVerified on the row it found.
sendRegisterOTP_noVerifiedCheck(phoneNumber, firstName, otp, smsOk) ==
  LET op == "sendRegisterOTP"
      existingUser == findByPhone(phoneNumber) IN
  IF existingUser # Null
    THEN LET id == existingUser[1]
             wait == checkOTPRateLimit(row(id)) IN
         IF wait > 0
           THEN Finish(Reply(op, phoneNumber, id, 429, "Please wait"), users, Null)
           ELSE Finish(smsReply(Reply(op, phoneNumber, id, 200, "OTP sent successfully"), smsOk),
                       rowUpdate(users, id,
                                 [firstName |-> IF firstName # Null THEN firstName
                                                ELSE row(id).firstName] @@ otpValues(otp)),
                       Null)
  ELSE IF phoneTaken(phoneNumber)
    THEN Finish(Reply(op, phoneNumber, "none", 500, "Validation error"), users, Null)
  ELSE \E id \in UserIds \ Ids :
         Finish(smsReply(Reply(op, phoneNumber, id, 200, "OTP sent successfully"), smsOk),
                rowInsert(users, id,
                          newUser(phoneNumber, firstName, otp, now + OTP_EXPIRY_MINUTES * 60)),
                Null)

\* ------------------------------------------------- POST /register/send-otp
sendRegisterOTP(phoneNumber, firstName, otp, smsOk) ==
  LET op == "sendRegisterOTP"
      existingUser == findByPhone(phoneNumber) IN
  IF existingUser # Null /\ row(existingUser[1]).isVerified
    THEN Finish(Reply(op, phoneNumber, existingUser[1], 409, "Phone number already registered"),
                users, Null)
  ELSE IF existingUser # Null
    THEN LET id == existingUser[1]
             wait == checkOTPRateLimit(row(id)) IN
         IF wait > 0
           THEN Finish(Reply(op, phoneNumber, id, 429, "Please wait"), users, Null)
           ELSE Finish(smsReply(Reply(op, phoneNumber, id, 200, "OTP sent successfully"), smsOk),
                       rowUpdate(users, id,
                                 [firstName |-> IF firstName # Null THEN firstName
                                                ELSE row(id).firstName] @@ otpValues(otp)),
                       Null)
  ELSE IF phoneTaken(phoneNumber)
    THEN Finish(Reply(op, phoneNumber, "none", 500, "Validation error"), users, Null)
  ELSE \E id \in UserIds \ Ids :
         Finish(smsReply(Reply(op, phoneNumber, id, 200, "OTP sent successfully"), smsOk),
                rowInsert(users, id,
                          newUser(phoneNumber, firstName, otp, now + OTP_EXPIRY_MINUTES * 60)),
                Null)

\* The token pair of a completed verification, stored and set as cookie.
tokenValues(tokens) ==
  [refreshToken |-> Some(tokens.refreshToken),
   refreshTokenExpiresAt |-> Some(now + REFRESH_TOKEN_EXPIRY_DAYS * SecondsPerDay),
   refreshTokenRevokedAt |-> Null]

issued(r, tokens) ==
  [r EXCEPT !.accessToken = Some(tokens.accessToken),
            !.refreshToken = Some(tokens.refreshToken),
            !.cookie = "set"]

\* ----------------------------------------------- POST /register/verify-otp
verifyRegisterOTP(phoneNumber, otp) ==
  LET op == "verifyRegisterOTP"
      found == findByPhone(phoneNumber)
      R(uid, status, msg) == [Reply(op, phoneNumber, uid, status, msg) EXCEPT !.otp = Some(otp)] IN
  IF found = Null
    THEN Finish(R("none", 404, "User not found"), users, Null)
  ELSE LET id == found[1]
           user == row(id)
           v == validateOTP(user, otp)
           tokens == generateTokens(id) IN
    IF user.isVerified
      THEN Finish(R(id, 409, "User already verified"), users, Null)
    ELSE IF v.msg # "none"
      THEN Finish(R(id, v.status, v.msg), users, Null)
    ELSE IF ~v.ok
      THEN Finish(R(id, 401, "Invalid OTP"), rowIncrement(users, id), Null)
    ELSE Finish(issued(R(id, 201, "Registration successful"), tokens),
                rowUpdate(users, id,
                          [otpIsUsed |-> TRUE, isVerified |-> TRUE] @@ tokenValues(tokens)),
                Some(tokens))

\* --------------------------------------------------- POST /login/send-otp
sendLoginOTP(phoneNumber, otp, smsOk) ==
  LET op == "sendLoginOTP"
      found == findByPhone(phoneNumber) IN
  IF found = Null
    THEN Finish(Reply(op, phoneNumber, "none", 404, "Phone number not registered"), users, Null)
  ELSE LET id == found[1]
           user == row(id) IN
    IF ~user.isVerified
      THEN Finish(Reply(op, phoneNumber, id, 403, "Please complete registration first"), users, Null)
    ELSE IF ~user.isActive
      THEN Finish(Reply(op, phoneNumber, id, 403, "Account is deactivated"), users, Null)
    ELSE IF checkOTPRateLimit(user) > 0
      THEN Finish(Reply(op, phoneNumber, id, 429, "Please wait"), users, Null)
    ELSE Finish(smsReply(Reply(op, phoneNumber, id, 200, "OTP sent successfully"), smsOk),
                rowUpdate(users, id, otpValues(otp)), Null)

\* ------------------------------------------------- POST /login/verify-otp
verifyLoginOTP(phoneNumber, otp) ==
  LET op == "verifyLoginOTP"
      found == findByPhone(phoneNumber)
      R(uid, status, msg) == [Reply(op, phoneNumber, uid, status, msg) EXCEPT !.otp = Some(otp)] IN
  IF found = Null
    THEN Finish(R("none", 404, "User not found"), users, Null)
  ELSE LET id == found[1]
           user == row(id)
           v == validateOTP(user, otp)
           tokens == generateTokens(id) IN
    IF ~user.isVerified
      THEN Finish(R(id, 403, "Please complete registration first"), users, Null)
    ELSE IF ~user.isActive
      THEN Finish(R(id, 403, "Account is deactivated"), users, Null)
    ELSE IF v.msg # "none"
      THEN Finish(R(id, v.status, v.msg), users, Null)
    ELSE IF ~v.ok
      THEN Finish(R(id, 401, "Invalid OTP"), rowIncrement(users, id), Null)
    ELSE Finish(issued(R(id, 200, "Login successful"), tokens),
                rowUpdate(users, id,
                          [otpIsUsed |-> TRUE, lastLogin |-> Some(now)] @@ tokenValues(tokens)),
                Some(tokens))

\* ------------------------------------------------- POST /login/resend-otp
resendOTP(phoneNumber, otp, smsOk) ==
  LET op == "resendOTP"
      found == findByPhone(phoneNumber) IN
  IF found = Null
    THEN Finish(Reply(op, phoneNumber, "none", 404, "Phone number not registered"), users, Null)
  ELSE LET id == found[1] IN
    IF checkOTPRateLimit(row(id)) > 0
      THEN Finish(Reply(op, phoneNumber, id, 429, "Please wait"), users, Null)
    ELSE Finish(smsReply(Reply(op, phoneNumber, id, 200, "OTP resent successfully"), smsOk),
                rowUpdate(users, id, otpValues(otp)), Null)

\* ----------------------------------------------------------- POST /refresh
\* jwt.verify under the refresh secret, then User.findOne({where: {id:
\* decoded.userId, refreshToken, deletedAt: null}}): the row's id, or the
\* error thrown.
refreshFind(table, refreshToken) ==
  IF jwtVerify(refreshToken, cfg.refreshSecret, FALSE) # "ok"
    THEN [status |-> 401, msg |-> "Invalid or expired refresh token", id |-> "none"]
  ELSE IF refreshToken.kind # "user"
    THEN [status |-> 500, msg |-> "WHERE parameter id has invalid undefined value", id |-> "none"]
  ELSE LET id == refreshToken.id IN
    IF table[id] # Null /\ table[id][1].refreshToken = Some(refreshToken)
       /\ table[id][1].deletedAt = Null
      THEN [status |-> 0, msg |-> "none", id |-> id]
      ELSE [status |-> 401, msg |-> "Refresh token not found or invalid", id |-> "none"]

\* refreshCheck without the test of refreshTokenRevokedAt.
refreshCheck_noRevokedCheck(user) ==
  IF user.refreshTokenExpiresAt # Null /\ now > user.refreshTokenExpiresAt[1]
    THEN [status |-> 401, msg |-> "Refresh token expired"]
  ELSE IF ~user.isActive
    THEN [status |-> 403, msg |-> "Account is deactivated"]
  ELSE [status |-> 0, msg |-> "none"]

\* The checks made on the instance that findOne returned.
refreshCheck(user) ==
  IF user.refreshTokenRevokedAt # Null
    THEN [status |-> 401, msg |-> "Refresh token has been revoked"]
  ELSE IF user.refreshTokenExpiresAt # Null /\ now > user.refreshTokenExpiresAt[1]
    THEN [status |-> 401, msg |-> "Refresh token expired"]
  ELSE IF ~user.isActive
    THEN [status |-> 403, msg |-> "Account is deactivated"]
  ELSE [status |-> 0, msg |-> "none"]

refreshToken(presented) ==
  LET op == "refreshToken"
      R(uid, status, msg) == [Reply(op, "none", uid, status, msg) EXCEPT !.tok = presented] IN
  IF presented = Null
    THEN Finish(R("none", 401, "Refresh token required"), users, Null)
  ELSE LET f == refreshFind(users, presented[1]) IN
    IF f.msg # "none"
      THEN Finish(R("none", f.status, f.msg), users, Null)
    ELSE LET c == refreshCheck(row(f.id))
             tokens == generateTokens(f.id) IN
      IF c.msg # "none"
        THEN Finish(R(f.id, c.status, c.msg), users, Null)
      ELSE Finish(issued(R(f.id, 200, "Token refreshed successfully"), tokens),
                  rowUpdate(users, f.id, tokenValues(tokens)),
                  Some(tokens))

\* POST /refresh as the event loop runs it: the handler is suspended at
\* await User.findOne, and what follows the await (the checks on the instance
\* it returned, generateTokens, the UPDATE by primary key of user.update) runs
\* when the handler is resumed.  Other requests are handled in between.
suspended(presented, id, user) ==
  [pc |-> "found", tok |-> presented, id |-> id, user |-> Some(user),
   status |-> 0, tokens |-> Null]

answered(slot, r, tokens) ==
  [slot EXCEPT !.pc = "done", !.status = r.status, !.tokens = tokens]

refreshFindOne(s, presented) ==
  LET op == "refreshToken"
      R(uid, status, msg) == [Reply(op, "none", uid, status, msg) EXCEPT !.tok = presented]
      start == [pc |-> "idle", tok |-> presented, id |-> "none", user |-> Null,
                status |-> 0, tokens |-> Null] IN
  /\ inflight[s].pc = "idle"
  /\ IF presented = Null
       THEN LET r == R("none", 401, "Refresh token required") IN
            Respond(r, users, Null, [inflight EXCEPT ![s] = answered(start, r, Null)])
     ELSE LET f == refreshFind(users, presented[1]) IN
       IF f.msg # "none"
         THEN LET r == R("none", f.status, f.msg) IN
              Respond(r, users, Null, [inflight EXCEPT ![s] = answered(start, r, Null)])
       ELSE /\ inflight' = [inflight EXCEPT ![s] = suspended(presented, f.id, row(f.id))]
            /\ UNCHANGED <<now, ticks, cfg, users, held, res, streak, others>>

refreshUpdate(s) ==
  LET op == "refreshToken"
      slot == inflight[s]
      R(status, msg) == [Reply(op, "none", slot.id, status, msg) EXCEPT !.tok = slot.tok] IN
  /\ slot.pc = "found"
  /\ LET c == refreshCheck(slot.user[1])
         tokens == generateTokens(slot.id) IN
     IF c.msg # "none"
       THEN LET r == R(c.status, c.msg) IN
            Respond(r, users, Null, [inflight EXCEPT ![s] = answered(slot, r, Null)])
     ELSE LET r == issued(R(200, "Token refreshed successfully"), tokens) IN
          Respond(r, rowUpdate(users, slot.id, tokenValues(tokens)), Some(tokens),
                  [inflight EXCEPT ![s] = answered(slot, r, Some(tokens))])

\* ------------------------------------------- auth.middleware authenticate
\* The Authorization header is absent (<<>>) or carries a token.
authenticate(bearer) ==
  IF bearer = Null
    THEN [status |-> 401, msg |-> "Authentication required", id |-> "none"]
  ELSE LET token == bearer[1]
           v == verifyAccessToken(token) IN
    IF v # "ok"
      THEN [status |-> 401,
            msg |-> IF v = "Token expired" THEN "Token expired" ELSE "Invalid authentication token",
            id |-> "none"]
    ELSE IF token.kind # "user" \/ findById(token.id) = Null
      THEN [status |-> 401, msg |-> "Invalid authentication token", id |-> "none"]
    ELSE IF ~row(token.id).isActive
      THEN [status |-> 401, msg |-> "Account is deactivated", id |-> "none"]
    ELSE [status |-> 0, msg |-> "none", id |-> token.id]

\* auth.middleware.js verifyRefreshToken: the guard of the routes that take
\* a refresh token of the token service.
verifyRefreshTokenMiddleware(presented) ==
  LET op == "verifyRefreshTokenMiddleware"
      R(uid, status, msg) == [Reply(op, "none", uid, status, msg) EXCEPT !.tok = presented] IN
  IF presented = Null
    THEN Finish(R("none", 401, "Refresh token required"), users, Null)
  ELSE IF verifyRefreshToken(presented[1]) # "ok"
    THEN Finish(R("none", 401, "Invalid or expired refresh token"), users, Null)
  ELSE Finish(R(presented[1].id, 200, "next"), users, Null)

\* Every token a client was handed, in whichever header or cookie.
heldPairs == {p[1] : p \in {held.ctl, held.prev, held.svc} \ {Null}}

mintedAsAccess(token) == \E p \in heldPairs : p.accessToken = token

mintedAsRefresh(token) == \E p \in heldPairs : p.refreshToken = token

heldTokens == {p.accessToken : p \in heldPairs} \cup {p.refreshToken : p \in heldPairs}

Bearers == {Null} \cup {Some(t) : t \in heldTokens \cup {forgedToken}}

\* What a client can send.  The Authorization header: nothing, or an access
\* token it was handed by either issuer.  The refreshToken cookie: nothing, a
\* string no one signed, or a refresh token the controller handed out.
AccessHeaders ==
  {Null} \cup {Some(p[1].accessToken) : p \in {held.ctl, held.svc} \ {Null}}

RefreshCookies ==
  {Null, Some(forgedToken)}
    \cup {Some(p[1].refreshToken) : p \in {held.ctl, held.prev} \ {Null}}

\* The header of a client that signed in through the token service.
SvcHeaders ==
  {Null} \cup {Some(p[1].accessToken) : p \in {held.svc} \ {Null}}

\* The code a client types when it types the one the SMS carried.
SentOtps ==
  {row(i).currentOtp[1] : i \in {k \in Ids : row(k).currentOtp # Null}}

\* logout whose UPDATE has lost the refreshToken and refreshTokenRevokedAt
\* conditions of its WHERE clause.
logout_whereIdOnly(bearer, presented) ==
  LET op == "logout"
      a == authenticate(bearer)
      R(uid, status, msg) == [Reply(op, "none", uid, status, msg) EXCEPT !.tok = presented] IN
  IF a.msg # "none"
    THEN Finish(R("none", a.status, a.msg), users, Null)
  ELSE Finish([R(a.id, 200, "Logout successful") EXCEPT !.cookie = "cleared"],
              IF presented # Null
                THEN rowUpdate(users, a.id, [refreshTokenRevokedAt |-> Some(now)])
                ELSE users,
              Null)

\* ------------------------------------------------------------ POST /logout
logout(bearer, presented) ==
  LET op == "logout"
      a == authenticate(bearer)
      R(uid, status, msg) == [Reply(op, "none", uid, status, msg) EXCEPT !.tok = presented] IN
  IF a.msg # "none"
    THEN Finish(R("none", a.status, a.msg), users, Null)
  ELSE LET userId == a.id
           match == /\ presented # Null
                    /\ users[userId] # Null
                    /\ row(userId).refreshToken = presented
                    /\ row(userId).refreshTokenRevokedAt = Null IN
    Finish([R(userId, 200, "Logout successful") EXCEPT !.cookie = "cleared"],
           IF match THEN rowUpdate(users, userId, [refreshTokenRevokedAt |-> Some(now)])
                    ELSE users,
           Null)

\* -------------------------------------------------------- POST /logout-all
logoutAll(bearer) ==
  LET op == "logoutAll"
      a == authenticate(bearer) IN
  IF a.msg # "none"
    THEN Finish(Reply(op, "none", "none", a.status, a.msg), users, Null)
  ELSE Finish([Reply(op, "none", a.id, 200, "Logged out from all devices successfully")
                 EXCEPT !.cookie = "cleared"],
              rowUpdate(users, a.id,
                        [refreshTokenRevokedAt |-> Some(now), refreshToken |-> Null,
                         refreshTokenExpiresAt |-> Null]),
              Null)

\* -------------------------------------------------------------- GET /me
getCurrentUser(bearer) ==
  LET op == "getCurrentUser"
      a == authenticate(bearer) IN
  IF a.msg # "none"
    THEN Finish(Reply(op, "none", "none", a.status, a.msg), users, Null)
  ELSE IF findById(a.id) = Null
    THEN Finish(Reply(op, "none", "none", 404, "User not found"), users, Null)
  ELSE Finish(Reply(op, "none", a.id, 200, "User retrieved successfully"), users, Null)

\* ------------------------------------------------ user.controller.js
\* The OTP checks the user controller repeats inline are those of validateOTP.

\* POST /users/phone/send-otp
sendPhoneUpdateOTP(bearer, newPhoneNumber, otp) ==
  LET op == "sendPhoneUpdateOTP"
      a == authenticate(bearer) IN
  IF a.msg # "none"
    THEN Finish(Reply(op, newPhoneNumber, "none", a.status, a.msg), users, Null)
  ELSE IF findById(a.id) = Null
    THEN Finish(Reply(op, newPhoneNumber, "none", 404, "User not found"), users, Null)
  ELSE LET id == a.id
           user == row(id) IN
    IF user.phoneNumber = newPhoneNumber
      THEN Finish(Reply(op, newPhoneNumber, id, 400, "New phone number is same as current phone number"),
                  users, Null)
    ELSE IF findByPhone(newPhoneNumber) # Null
      THEN Finish(Reply(op, newPhoneNumber, id, 409, "Phone number already in use"), users, Null)
    ELSE IF checkOTPRateLimit(user) > 0
      THEN Finish(Reply(op, newPhoneNumber, id, 429, "Please wait"), users, Null)
    \* tempData is no attribute of the User model: update() drops it.
    ELSE Finish(Reply(op, newPhoneNumber, id, 200, "OTP sent to new phone number"),
                rowUpdate(users, id, otpValues(otp)), Null)

\* POST /users/phone/verify-otp
verifyPhoneUpdateOTP(bearer, otp) ==
  LET op == "verifyPhoneUpdateOTP"
      a == authenticate(bearer)
      R(uid, status, msg) == [Reply(op, "none", uid, status, msg) EXCEPT !.otp = Some(otp)] IN
  IF a.msg # "none"
    THEN Finish(R("none", a.status, a.msg), users, Null)
  ELSE IF findById(a.id) = Null
    THEN Finish(R("none", 404, "User not found"), users, Null)
  ELSE LET id == a.id
           v == validateOTP(row(id), otp) IN
    IF v.msg # "none"
      THEN Finish(R(id, v.status, v.msg), users, Null)
    ELSE IF ~v.ok
      THEN Finish(R(id, 401, "Invalid OTP"), rowIncrement(users, id), Null)
    \* user.tempData is undefined: JSON.parse('{}') has no newPhoneNumber.
    ELSE Finish(R(id, 400, "No pending phone update found"), users, Null)

\* PUT /users/deactivate
deactivateAccount(bearer) ==
  LET op == "deactivateAccount"
      a == authenticate(bearer) IN
  IF a.msg # "none"
    THEN Finish(Reply(op, "none", "none", a.status, a.msg), users, Null)
  ELSE IF findById(a.id) = Null
    THEN Finish(Reply(op, "none", "none", 404, "User not found"), users, Null)
  ELSE IF ~row(a.id).isActive
    THEN Finish(Reply(op, "none", a.id, 400, "Account is already deactivated"), users, Null)
  ELSE Finish(Reply(op, "none", a.id, 200, "Account deactivated successfully"),
              rowUpdate(users, a.id, [isActive |-> FALSE, refreshTokenRevokedAt |-> Some(now)]),
              Null)

\* PUT /users/reactivate, mounted after router.use(authenticate)
reactivateAccount(bearer, phoneNumber, otp) ==
  LET op == "reactivateAccount"
      a == authenticate(bearer)
      found == findByPhone(phoneNumber)
      R(uid, status, msg) == [Reply(op, phoneNumber, uid, status, msg) EXCEPT !.otp = Some(otp), !.tok = bearer] IN
  IF a.msg # "none"
    THEN Finish(R("none", a.status, a.msg), users, Null)
  ELSE IF found = Null
    THEN Finish(R("none", 404, "User not found"), users, Null)
  ELSE LET id == found[1]
           v == validateOTP(row(id), otp) IN
    IF row(id).isActive
      THEN Finish(R(id, 400, "Account is already active"), users, Null)
    ELSE IF v.msg # "none"
      THEN Finish(R(id, v.status, v.msg), users, Null)
    ELSE IF ~v.ok
      THEN Finish(R(id, 401, "Invalid OTP"), rowIncrement(users, id), Null)
    ELSE Finish(R(id, 200, "Account reactivated successfully"),
                rowUpdate(users, id, [isActive |-> TRUE, otpIsUsed |-> TRUE]), Null)

\* POST /users/account/delete-otp
sendDeleteAccountOTP(bearer, otp) ==
  LET op == "sendDeleteAccountOTP"
      a == authenticate(bearer) IN
  IF a.msg # "none"
    THEN Finish(Reply(op, "none", "none", a.status, a.msg), users, Null)
  ELSE IF findById(a.id) = Null
    THEN Finish(Reply(op, "none", "none", 404, "User not found"), users, Null)
  ELSE IF checkOTPRateLimit(row(a.id)) > 0
    THEN Finish(Reply(op, "none", a.id, 429, "Please wait"), users, Null)
  ELSE Finish(Reply(op, "none", a.id, 200, "OTP sent to your phone number"),
              rowUpdate(users, a.id, otpValues(otp)), Null)

\* DELETE /users/account
deleteAccount(bearer, otp) ==
  LET op == "deleteAccount"
      a == authenticate(bearer)
      R(uid, status, msg) == [Reply(op, "none", uid, status, msg) EXCEPT !.otp = Some(otp)] IN
  IF a.msg # "none"
    THEN Finish(R("none", a.status, a.msg), users, Null)
  ELSE IF findById(a.id) = Null
    THEN Finish(R("none", 404, "User not found"), users, Null)
  ELSE LET id == a.id
           v == validateOTP(row(id), otp) IN
    IF v.msg # "none"
      THEN Finish(R(id, v.status, v.msg), users, Null)
    ELSE IF ~v.ok
      THEN Finish(R(id, 401, "Invalid OTP"), rowIncrement(users, id), Null)
    ELSE Finish(R(id, 200, "Account deleted successfully"),
                rowUpdate(users, id, [deletedAt |-> Some(now), isActive |-> FALSE,
                                      refreshTokenRevokedAt |-> Some(now)]),
                Null)

\* user.model.js deleteUser: UPDATE users SET deleted_at, is_active = false
\* WHERE id = $1 AND deleted_at IS NULL
deleteUser(userId) ==
  IF findById(userId) = Null
    THEN Finish(Reply("deleteUser", "none", "none", 500, "User not found"), users, Null)
  ELSE Finish(Reply("deleteUser", "none", userId, 200, "User deleted (soft)"),
              [users EXCEPT ![userId] =
                 Some([@[1] EXCEPT !.deletedAt = Some(now), !.isActive = FALSE])],
              Null)

\* ------------------------------------ auth.controller.js cleanupExpiredData
\* Two bulk updates over every row, deleted or not; a comparison with a null
\* column is not true.
cleanupOtp(user) ==
  IF /\ user.currentOtp # Null
     /\ \/ (user.otpExpiresAt # Null /\ user.otpExpiresAt[1] < now)
        \/ user.otpIsUsed
        \/ user.updatedAt < now - OTP_CLEANUP_DAYS * SecondsPerDay
  THEN [currentOtp |-> Null, otpExpiresAt |-> Null, otpAttempts |-> 0,
        otpIsUsed |-> FALSE, updatedAt |-> now] @@ user
  ELSE user

cleanupToken(user) ==
  IF /\ user.refreshToken # Null
     /\ \/ (user.refreshTokenExpiresAt # Null /\ user.refreshTokenExpiresAt[1] < now)
        \/ (user.refreshTokenRevokedAt # Null
            /\ user.refreshTokenRevokedAt[1] < now - TOKEN_CLEANUP_DAYS * SecondsPerDay)
  THEN [refreshToken |-> Null, refreshTokenExpiresAt |-> Null, updatedAt |-> now] @@ user
  ELSE user

cleanupExpiredData ==
  Finish(Reply("cleanupExpiredData", "none", "none", 200, "Expired data cleaned up"),
         [i \in UserIds |-> IF users[i] = Null THEN Null
                            ELSE Some(cleanupToken(cleanupOtp(users[i][1])))],
         Null)

\* --------------------------------------- universalAuth.middleware.js
AdminIds == {"a1", "a2"}

AdminEmails == {"root@example.com", "staff@example.com"}

Roles == {"superadmin", "admin", "editor"}

Passwords == {"correct horse", "battery staple"}

\* bcrypt.hash and bcrypt.compare: the hash is no password, and a password
\* matches the hash made of it and no other.
hash(password) == <<"bcrypt", password>>

compare(password, hashed) == hashed = hash(password)

adminRow(a) == admins[a][1]

\* Admin.create({name, email, role, password}) with the model's defaults.
newAdmin(email, role, hashedPassword) ==
  [email |-> email, password |-> hashedPassword, role |-> role,
   isActive |-> TRUE, deletedAt |-> Null]

\* The admins table a deployment starts with: the seeded superadmin.
seedAdmins ==
  [a \in AdminIds |->
     IF a = "a1"
     THEN Some(newAdmin("root@example.com", "superadmin", hash("correct horse")))
     ELSE Null]

\* Admin.findOne({where: {id, deletedAt: null}})
findAdmin(id) ==
  IF id \in AdminIds /\ admins[id] # Null /\ adminRow(id).deletedAt = Null
  THEN Some(id) ELSE Null

\* Admin.findOne({where: {email, deletedAt: null}})
findAdminByEmail(email) ==
  LET hit == {a \in AdminIds : admins[a] # Null /\ adminRow(a).email = email
                                /\ adminRow(a).deletedAt = Null} IN
  IF hit = {} THEN Null ELSE Some(CHOOSE a \in hit : TRUE)

\* The active, non-deleted rows of the admins table.
Admins ==
  {a \in AdminIds : findAdmin(a) # Null /\ adminRow(a).isActive}

\* admin.controller.js generateTokens: the access token, {adminId, role}
\* signed under the admin access secret for one day.
adminAccessExpiry == SecondsPerDay

adminGenerateTokens(adminId, role) ==
  [role |-> role]
    @@ jwtSign(cfg.adminAccessSecret, "admin", adminId, "none", FALSE, adminAccessExpiry)

\* universalAuth whose user probe has lost the isActive condition of its
\* WHERE clause.
universalAuth_anyUser(bearer) ==
  IF bearer = Null
    THEN [status |-> 401, msg |-> "Access token required", id |-> "none",
          userId |-> "none", adminId |-> "none"]
  ELSE LET token == bearer[1] IN
    IF /\ jwtVerify(token, cfg.accessSecret, FALSE) = "ok"
       /\ token.kind = "user"
       /\ findById(token.id) # Null
      THEN [status |-> 0, msg |-> "none", id |-> token.id,
            userId |-> token.id, adminId |-> "none"]
    ELSE IF /\ jwtVerify(token, cfg.adminAccessSecret, FALSE) = "ok"
            /\ token.kind = "admin"
            /\ token.id \in Admins
      THEN [status |-> 0, msg |-> "none", id |-> token.id,
            userId |-> "none", adminId |-> token.id]
    ELSE [status |-> 401, msg |-> "Invalid or expired token", id |-> "none",
          userId |-> "none", adminId |-> "none"]

\* jwt.verify under the user access secret and User.findOne({id, deletedAt:
\* null, isActive: true}), then the same under the admin access secret; a
\* payload without the id the probe reads makes findOne throw, which the
\* probe swallows.
universalAuth(bearer) ==
  IF bearer = Null
    THEN [status |-> 401, msg |-> "Access token required", id |-> "none",
          userId |-> "none", adminId |-> "none"]
  ELSE LET token == bearer[1] IN
    IF /\ jwtVerify(token, cfg.accessSecret, FALSE) = "ok"
       /\ token.kind = "user"
       /\ findById(token.id) # Null
       /\ row(token.id).isActive
      THEN [status |-> 0, msg |-> "none", id |-> token.id,
            userId |-> token.id, adminId |-> "none"]
    ELSE IF /\ jwtVerify(token, cfg.adminAccessSecret, FALSE) = "ok"
            /\ token.kind = "admin"
            /\ token.id \in Admins
      THEN [status |-> 0, msg |-> "none", id |-> token.id,
            userId |-> "none", adminId |-> token.id]
    ELSE [status |-> 401, msg |-> "Invalid or expired token", id |-> "none",
          userId |-> "none", adminId |-> "none"]

\* GET /categories, behind router.use(universalAuth)
getAllCategories(bearer) ==
  LET op == "getAllCategories"
      a == universalAuth(bearer) IN
  IF a.msg # "none"
    THEN Finish([Reply(op, "none", "none", a.status, a.msg) EXCEPT !.tok = bearer], users, Null)
  ELSE Finish([Reply(op, "none", a.id, 200, "Categories retrieved successfully")
                 EXCEPT !.tok = bearer, !.userId = a.userId, !.adminId = a.adminId],
              users, Null)

\* --------------------------------------------- adminAuth.middleware.js
\* adminAuthenticate whose lookup has lost deletedAt: null and isActive: true.
adminAuthenticate_noActiveFilter(bearer) ==
  IF bearer = Null
    THEN [status |-> 401, msg |-> "Admin access token required", adminId |-> "none"]
  ELSE LET token == bearer[1]
           v == jwtVerify(token, cfg.adminAccessSecret, FALSE) IN
    IF v = "JsonWebTokenError"
      THEN [status |-> 401, msg |-> "Invalid admin token", adminId |-> "none"]
    ELSE IF v = "TokenExpiredError"
      THEN [status |-> 401, msg |-> "Admin token expired", adminId |-> "none"]
    ELSE IF token.kind # "admin"
      THEN [status |-> 500, msg |-> "WHERE parameter id has invalid undefined value",
            adminId |-> "none"]
    ELSE IF findAdmin(token.id) = Null
      THEN [status |-> 401, msg |-> "Admin not found or inactive", adminId |-> "none"]
    ELSE [status |-> 0, msg |-> "none", adminId |-> token.id]

\* adminAuthenticate: jwt.verify under the admin access secret, then
\* Admin.findOne({id: decoded.adminId, deletedAt: null, isActive: true}); a
\* payload without adminId makes findOne throw an error that is no JWT error
\* and is thrown on.
adminAuthenticate(bearer) ==
  IF bearer = Null
    THEN [status |-> 401, msg |-> "Admin access token required", adminId |-> "none"]
  ELSE LET token == bearer[1]
           v == jwtVerify(token, cfg.adminAccessSecret, FALSE) IN
    IF v = "JsonWebTokenError"
      THEN [status |-> 401, msg |-> "Invalid admin token", adminId |-> "none"]
    ELSE IF v = "TokenExpiredError"
      THEN [status |-> 401, msg |-> "Admin token expired", adminId |-> "none"]
    ELSE IF token.kind # "admin"
      THEN [status |-> 500, msg |-> "WHERE parameter id has invalid undefined value",
            adminId |-> "none"]
    ELSE IF token.id \notin Admins
      THEN [status |-> 401, msg |-> "Admin not found or inactive", adminId |-> "none"]
    ELSE [status |-> 0, msg |-> "none", adminId |-> token.id]

\* adminRole without the test of the role.
adminRole_any(roles, a) ==
  IF a.msg # "none" THEN a
  ELSE IF a.adminId = "none"
    THEN [status |-> 401, msg |-> "Admin authentication required", adminId |-> "none"]
  ELSE a

\* adminRole(...roles), run after adminAuthenticate has answered a: req.admin
\* is the row adminAuthenticate read.
adminRole(roles, a) ==
  IF a.msg # "none" THEN a
  ELSE IF a.adminId = "none"
    THEN [status |-> 401, msg |-> "Admin authentication required", adminId |-> "none"]
  ELSE IF adminRow(a.adminId).role \notin roles
    THEN [status |-> 403, msg |-> "You do not have permission to perform this action",
          adminId |-> a.adminId]
  ELSE a

\* An admin request brought to its response: the admins table and the access
\* tokens handed out so far.
AdminFinish(r, table, tokens) ==
  /\ res' = r
  /\ admins' = table
  /\ adminHeld' = adminHeld \cup tokens
  /\ streak' = nextStreak(r)
  /\ UNCHANGED <<now, ticks, cfg, users, held, inflight, refresh_tokens, rest>>

\* The reply of an admin route: the bearer it carried and the admin context
\* the guards attached.
AdminReply(op, bearer, a, status, msg) ==
  [Reply(op, "none", "none", status, msg) EXCEPT !.tok = bearer, !.adminId = a.adminId]

AdminBearers ==
  {Null} \cup {Some(t) : t \in adminHeld}

\* ------------------------------------------------- admin.controller.js
\* POST /admin/login
loginAdmin(email, password) ==
  LET op == "loginAdmin"
      found == findAdminByEmail(email)
      R(status, msg) == [Reply(op, email, "none", status, msg) EXCEPT !.otp = Some(password)] IN
  IF found = Null
    THEN AdminFinish(R(401, "Invalid email or password"), admins, {})
  ELSE LET admin == adminRow(found[1])
           accessToken == adminGenerateTokens(found[1], admin.role) IN
    IF ~compare(password, admin.password)
      THEN AdminFinish(R(401, "Invalid email or password"), admins, {})
    ELSE IF ~admin.isActive
      THEN AdminFinish(R(403, "Admin account is deactivated"), admins, {})
    \* refreshToken is no attribute of the Admin model: update() drops it.
    ELSE AdminFinish([R(200, "Admin login successful")
                        EXCEPT !.accessToken = Some(accessToken), !.adminId = found[1]],
                     admins, {accessToken})

\* POST /admin/register: adminAuthenticate, adminRole('superadmin')
registerAdmin(bearer, email, role, password) ==
  LET op == "registerAdmin"
      a == adminRole({"superadmin"}, adminAuthenticate(bearer)) IN
  IF a.msg # "none"
    THEN AdminFinish(AdminReply(op, bearer, a, a.status, a.msg), admins, {})
  ELSE IF findAdminByEmail(email) # Null
    THEN AdminFinish(AdminReply(op, bearer, a, 409, "Admin already exists"), admins, {})
  ELSE IF \E x \in AdminIds : admins[x] # Null /\ adminRow(x).email = email
    THEN AdminFinish(AdminReply(op, bearer, a, 500, "Validation error"), admins, {})
  ELSE \E id \in AdminIds :
         /\ admins[id] = Null
         /\ AdminFinish(AdminReply(op, bearer, a, 200, "Admin registered successfully"),
                        [admins EXCEPT ![id] = Some(newAdmin(email, role, hash(password)))], {})

\* GET /admin/profile: adminAuthenticate
getAdminProfile(bearer) ==
  LET op == "getAdminProfile"
      a == adminAuthenticate(bearer) IN
  IF a.msg # "none"
    THEN AdminFinish(AdminReply(op, bearer, a, a.status, a.msg), admins, {})
  ELSE AdminFinish(AdminReply(op, bearer, a, 200, "Admin profile retrieved"), admins, {})

\* POST /admin/logout: adminAuthenticate; the update names refreshToken only,
\* which is no attribute of the model, and writes nothing.
logoutAdmin(bearer) ==
  LET op == "logoutAdmin"
      a == adminAuthenticate(bearer) IN
  IF a.msg # "none"
    THEN AdminFinish(AdminReply(op, bearer, a, a.status, a.msg), admins, {})
  ELSE AdminFinish(AdminReply(op, bearer, a, 200, "Admin logged out successfully"), admins, {})

\* PUT /admin/deactivate: adminAuthenticate
deactivateAdmin(bearer) ==
  LET op == "deactivateAdmin"
      a == adminAuthenticate(bearer) IN
  IF a.msg # "none"
    THEN AdminFinish(AdminReply(op, bearer, a, a.status, a.msg), admins, {})
  ELSE AdminFinish(AdminReply(op, bearer, a, 200, "Admin deactivated successfully"),
                   [admins EXCEPT ![a.adminId] = Some([@[1] EXCEPT !.isActive = FALSE])], {})

\* GET /admin/all: adminAuthenticate, adminRole('superadmin')
getAllAdmins(bearer) ==
  LET op == "getAllAdmins"
      a == adminRole({"superadmin"}, adminAuthenticate(bearer)) IN
  IF a.msg # "none"
    THEN AdminFinish(AdminReply(op, bearer, a, a.status, a.msg), admins, {})
  ELSE AdminFinish(AdminReply(op, bearer, a, 200, "Admins retrieved successfully"), admins, {})

\* ------------------------------------ district, taluka, category routes
\* The guards each route runs behind, in the order the router mounts them:
\* router.use(universalAuth) first, router.use(adminAuthenticate) before the
\* routes registered after it.
districtRouter ==
  [getAllDistricts        |-> <<"universalAuth">>,
   getDistrictById        |-> <<"universalAuth">>,
   createDistrict         |-> <<"universalAuth", "adminAuthenticate">>,
   updateDistrict         |-> <<"universalAuth", "adminAuthenticate">>,
   deleteDistrict         |-> <<"universalAuth", "adminAuthenticate">>,
   getTalukasByDistrictId |-> <<"universalAuth", "adminAuthenticate">>]

talukaRouter ==
  [getAllTalukas |-> <<"universalAuth">>,
   getTalukaById |-> <<"universalAuth">>,
   createTaluka  |-> <<"universalAuth", "adminAuthenticate">>,
   updateTaluka  |-> <<"universalAuth", "adminAuthenticate">>,
   deleteTaluka  |-> <<"universalAuth", "adminAuthenticate">>]

\* GET /categories is getAllCategories above.
categoryRouter ==
  [getCategoryById |-> <<"universalAuth">>,
   createCategory  |-> <<"universalAuth", "adminAuthenticate">>,
   updateCategory  |-> <<"universalAuth", "adminAuthenticate">>,
   deleteCategory  |-> <<"universalAuth", "adminAuthenticate">>]

contentRoutes == districtRouter @@ talukaRouter @@ categoryRouter

\* The guards of a route without router.use(adminAuthenticate).
runGuards_universalOnly(guards, bearer) ==
  LET u == universalAuth(bearer) IN
  IF u.msg # "none"
    THEN [status |-> u.status, msg |-> u.msg, userId |-> "none", adminId |-> "none"]
    ELSE [status |-> 0, msg |-> "none", userId |-> u.userId, adminId |-> u.adminId]

\* The guards of a route run in order on one request: the first that throws
\* answers; req.userId and req.adminId are what the guards that ran attached.
runGuards(guards, bearer) ==
  LET u == universalAuth(bearer)
      a == adminAuthenticate(bearer) IN
  IF u.msg # "none"
    THEN [status |-> u.status, msg |-> u.msg, userId |-> "none", adminId |-> "none"]
  ELSE IF Len(guards) = 1
    THEN [status |-> 0, msg |-> "none", userId |-> u.userId, adminId |-> u.adminId]
  ELSE IF a.msg # "none"
    THEN [status |-> a.status, msg |-> a.msg, userId |-> u.userId, adminId |-> u.adminId]
  ELSE [status |-> 0, msg |-> "none", userId |-> u.userId, adminId |-> a.adminId]

\* A request to a route of the three routers with a well-formed body: the
\* guards, then the controller, whose reads and writes of the reference
\* tables are left out.
handle(route, bearer) ==
  LET g == runGuards(contentRoutes[route], bearer)
      R(status, msg) == [Reply(route, "none", "none", status, msg)
                           EXCEPT !.tok = bearer, !.userId = g.userId, !.adminId = g.adminId] IN
  IF g.msg # "none"
    THEN Finish(R(g.status, g.msg), users, Null)
    ELSE Finish(R(200, "handled"), users, Null)

\* token.service.js generateAuthTokens, as loginUser of the password flow
\* calls it: for a user that findUserByEmail returns and that is active.
generateAuthTokens(userId) ==
  /\ findById(userId) # Null
  /\ row(userId).isActive
  /\ LET accessToken == generateAccessToken(userId)
         refreshTok == generateRefreshToken(userId) IN
     Finish([Reply("generateAuthTokens", "none", userId, 200, "Login successful")
               EXCEPT !.accessToken = Some(accessToken), !.refreshToken = Some(refreshTok)],
            users, Some([accessToken |-> accessToken, refreshToken |-> refreshTok]))

\* ------------------------------------------------------------------ clock
Tick(d) ==
  /\ ticks < MaxTicks
  /\ now' = now + d
  /\ ticks' = ticks + 1
  /\ UNCHANGED <<cfg, users, held, res, streak, inflight, others>>

\* ------------------------------------------------------------------- spec
idle ==
  [pc |-> "idle", tok |-> Null, id |-> "none", user |-> Null, status |-> 0, tokens |-> Null]

Init ==
  /\ now = 0
  /\ ticks = 0
  /\ cfg = [accessSecret |-> "access-secret", refreshSecret |-> "refresh-secret",
            adminAccessSecret |-> "admin-access-secret"]
  /\ users = [i \in UserIds |-> Null]
  /\ held = [ctl |-> Null, prev |-> Null, svc |-> Null, old |-> {}]
  /\ res = Reply("none", "none", "none", 0, "none")
  /\ streak = [op |-> "none", uid |-> "none", n |-> 0]
  /\ inflight = [s \in Slots |-> idle]
  /\ admins = seedAdmins
  /\ adminHeld = {}
  /\ refresh_tokens = {}
  /\ InitRest

\* The OTP life cycle: every operation that issues or verifies an OTP, for
\* clients that type right and wrong codes and an SMS gateway that may fail.
Next ==
  \/ \E d \in TickSteps : Tick(d)
  \/ \E p \in Phones, f \in Names, o \in Otps, smsOk \in BOOLEAN :
       sendRegisterOTP(p, f, o, smsOk)
  \/ \E p \in Phones, o \in Otps : verifyRegisterOTP(p, o)
  \/ \E p \in Phones, o \in Otps, smsOk \in BOOLEAN : sendLoginOTP(p, o, smsOk)
  \/ \E p \in Phones, o \in Otps : verifyLoginOTP(p, o)
  \/ \E p \in Phones, o \in Otps, smsOk \in BOOLEAN : resendOTP(p, o, smsOk)
  \/ \E b \in SvcHeaders, p \in NewPhones, o \in Otps : sendPhoneUpdateOTP(b, p, o)
  \/ \E b \in SvcHeaders, o \in Otps : verifyPhoneUpdateOTP(b, o)
  \/ \E b \in SvcHeaders : deactivateAccount(b)
  \/ \E b \in SvcHeaders, p \in Phones, o \in Otps : reactivateAccount(b, p, o)
  \/ \E b \in SvcHeaders, o \in Otps : sendDeleteAccountOTP(b, o)
  \/ \E b \in SvcHeaders, o \in Otps : deleteAccount(b, o)
  \/ cleanupExpiredData
  \/ \E u \in UserIds : generateAuthTokens(u)

Spec == Init /\ [][Next]_vars

\* The session life cycle: registration, login, refresh, logout, account removal
\* and clean-up (the phone-update pair is left to Next), for clients that type
\* the code they were sent and present any token they were ever handed.
NextSession ==
  \/ \E d \in TickSteps : Tick(d)
  \/ \E p \in Phones, o \in Otps : sendRegisterOTP(p, Null, o, TRUE)
  \/ \E p \in Phones, o \in SentOtps : verifyRegisterOTP(p, o)
  \/ \E p \in Phones, o \in Otps : sendLoginOTP(p, o, TRUE)
  \/ \E p \in Phones, o \in SentOtps : verifyLoginOTP(p, o)
  \/ \E p \in Phones, o \in Otps : resendOTP(p, o, TRUE)
  \/ \E t \in RefreshCookies : refreshToken(t)
  \/ \E b \in AccessHeaders, t \in RefreshCookies : logout(b, t)
  \/ \E b \in AccessHeaders : logoutAll(b)
  \/ \E b \in AccessHeaders : getCurrentUser(b)
  \/ \E b \in AccessHeaders : deactivateAccount(b)
  \/ \E b \in AccessHeaders, p \in Phones, o \in SentOtps : reactivateAccount(b, p, o)
  \/ \E b \in AccessHeaders, o \in Otps : sendDeleteAccountOTP(b, o)
  \/ \E b \in AccessHeaders, o \in SentOtps : deleteAccount(b, o)
  \/ \E u \in UserIds : deleteUser(u)
  \/ cleanupExpiredData
  \/ \E b \in AccessHeaders : getAllCategories(b)
  \/ \E u \in UserIds : generateAuthTokens(u)

SpecSession == Init /\ [][NextSession]_vars

\* Requests in flight together: two POST /refresh handlers suspended at their
\* awaits, with the revoking operations handled between their steps.
NextRace ==
  \/ \E d \in TickSteps : Tick(d)
  \/ \E p \in Phones, o \in Otps : sendRegisterOTP(p, Null, o, TRUE)
  \/ \E p \in Phones, o \in SentOtps : verifyRegisterOTP(p, o)
  \/ \E s \in Slots, t \in RefreshCookies : refreshFindOne(s, t)
  \/ \E s \in Slots : refreshUpdate(s)
  \/ \E b \in SvcHeaders, t \in RefreshCookies : logout(b, t)
  \/ \E b \in SvcHeaders : logoutAll(b)
  \/ \E b \in SvcHeaders : deactivateAccount(b)
  \/ \E u \in UserIds : generateAuthTokens(u)

SpecRace == Init /\ [][NextRace]_vars

\* Tokens of either issuer shown to every verifier, in a deployment whose
\* JWT_ACCESS_SECRET and JWT_REFRESH_SECRET differ and in one where they are
\* the same string (validateEnv requires only that both are set).
InitTok ==
  /\ now = 0
  /\ ticks = 0
  /\ cfg \in {[accessSecret |-> "access-secret", refreshSecret |-> r,
               adminAccessSecret |-> "admin-access-secret"] :
                r \in {"access-secret", "refresh-secret"}}
  /\ users = [i \in UserIds |-> Null]
  /\ held = [ctl |-> Null, prev |-> Null, svc |-> Null, old |-> {}]
  /\ res = Reply("none", "none", "none", 0, "none")
  /\ streak = [op |-> "none", uid |-> "none", n |-> 0]
  /\ inflight = [s \in Slots |-> idle]
  /\ admins = seedAdmins
  /\ adminHeld = {}
  /\ refresh_tokens = {}
  /\ InitRest

NextTok ==
  \/ \E d \in TickSteps : Tick(d)
  \/ \E p \in Phones, o \in Otps : sendRegisterOTP(p, Null, o, TRUE)
  \/ \E p \in Phones, o \in SentOtps : verifyRegisterOTP(p, o)
  \/ \E u \in UserIds : generateAuthTokens(u)
  \/ \E t \in Bearers : refreshToken(t)
  \/ \E t \in Bearers : verifyRefreshTokenMiddleware(t)
  \/ \E b \in Bearers : getCurrentUser(b)
  \/ \E b \in Bearers : getAllCategories(b)

SpecTok == InitTok /\ [][NextTok]_vars

\* The admin side next to a user: a deployment whose JWT_ADMIN_ACCESS_SECRET
\* differs from JWT_ACCESS_SECRET or is the same string, and an admins table
\* of the seeded superadmin and, possibly, an editor, who may be one that
\* logged in at second 0 and whose row the operator soft-deleted since.
staffRow(deletedAt) ==
  [newAdmin("staff@example.com", "editor", hash("battery staple")) EXCEPT !.deletedAt = deletedAt]

InitAdmin ==
  /\ now = 0
  /\ ticks = 0
  /\ cfg \in {[accessSecret |-> "access-secret", refreshSecret |-> "refresh-secret",
               adminAccessSecret |-> a] : a \in {"admin-access-secret", "access-secret"}}
  /\ users = [i \in UserIds |-> Null]
  /\ held = [ctl |-> Null, prev |-> Null, svc |-> Null, old |-> {}]
  /\ res = Reply("none", "none", "none", 0, "none")
  /\ streak = [op |-> "none", uid |-> "none", n |-> 0]
  /\ inflight = [s \in Slots |-> idle]
  /\ \E staff \in {Null, Some(staffRow(Null)), Some(staffRow(Some(0)))} :
       /\ admins = [seedAdmins EXCEPT !["a2"] = staff]
       /\ adminHeld = IF staff # Null /\ staff[1].deletedAt # Null
                      THEN {adminGenerateTokens("a2", "editor")}
                      ELSE {}
  /\ refresh_tokens = {}
  /\ InitRest

\* Every Authorization header a user or an admin client can send.
AnyBearers == AccessHeaders \cup AdminBearers

NextAdmin ==
  \/ \E d \in TickSteps : Tick(d)
  \/ \E p \in Phones : sendRegisterOTP(p, Null, "111111", TRUE)
  \/ \E u \in UserIds : generateAuthTokens(u)
  \/ \E e \in AdminEmails, pw \in Passwords : loginAdmin(e, pw)
  \/ \E b \in AdminBearers, e \in AdminEmails, r \in Roles :
       registerAdmin(b, e, r, "battery staple")
  \/ \E b \in AnyBearers : getAdminProfile(b)
  \/ \E b \in AdminBearers : logoutAdmin(b)
  \/ \E b \in AdminBearers : deactivateAdmin(b)
  \/ \E b \in AnyBearers : getAllAdmins(b)

SpecAdmin == InitAdmin /\ [][NextAdmin]_vars

\* The reference-data routes, for user and admin clients with tokens of every
\* issuer, whose accounts may have been deactivated since; the admins table
\* holds the seeded superadmin.
InitContent ==
  /\ now = 0
  /\ ticks = 0
  /\ cfg \in {[accessSecret |-> "access-secret", refreshSecret |-> "refresh-secret",
               adminAccessSecret |-> a] : a \in {"admin-access-secret", "access-secret"}}
  /\ users = [i \in UserIds |-> Null]
  /\ held = [ctl |-> Null, prev |-> Null, svc |-> Null, old |-> {}]
  /\ res = Reply("none", "none", "none", 0, "none")
  /\ streak = [op |-> "none", uid |-> "none", n |-> 0]
  /\ inflight = [s \in Slots |-> idle]
  /\ admins = seedAdmins
  /\ adminHeld = {}
  /\ refresh_tokens = {}
  /\ InitRest

NextContent ==
  \/ \E d \in TickSteps : Tick(d)
  \/ \E p \in Phones : sendRegisterOTP(p, Null, "111111", TRUE)
  \/ \E p \in Phones, o \in SentOtps : verifyRegisterOTP(p, o)
  \/ \E u \in UserIds : generateAuthTokens(u)
  \/ \E b \in SvcHeaders : deactivateAccount(b)
  \/ \E e \in AdminEmails, pw \in Passwords : loginAdmin(e, pw)
  \/ \E b \in AdminBearers : deactivateAdmin(b)
  \/ \E b \in AnyBearers : getAllCategories(b)
  \/ \E r \in DOMAIN contentRoutes, b \in AnyBearers : handle(r, b)

SpecContent == InitContent /\ [][NextContent]_vars

\* ================================================================ claims

\* C1 (as claimed): of two POST /refresh requests that present the same
\* stored, valid token T, whatever the interleaving of their reads and
\* writes, when one succeeds and rotates T away the other is answered 401;
\* never two successes.
C1_ExactlyOneRefreshWins ==
  \A s \in Slots, t \in Slots :
    ( /\ s # t
      /\ inflight[s].pc = "done" /\ inflight[t].pc = "done"
      /\ inflight[s].tok # Null /\ inflight[s].tok = inflight[t].tok
      /\ inflight[s].status = 200
      /\ inflight[s].tokens[1].refreshToken # inflight[s].tok[1] )
    => inflight[t].status = 401

\* C2 (as claimed): right after a POST /refresh presenting T has succeeded,
\* the refresh token stored for the user is a value different from T, also
\* when T was issued in the same clock second.
C2_RefreshStoresNewToken ==
  (res.op = "refreshToken" /\ res.status = 200)
    => row(res.uid).refreshToken # res.tok

\* The four conditions POST /refresh requires of the user row for the token
\* it was presented.
refreshable(user, presented) ==
  /\ user.refreshToken = presented
  /\ user.refreshTokenRevokedAt = Null
  /\ (user.refreshTokenExpiresAt = Null \/ now <= user.refreshTokenExpiresAt[1])
  /\ user.isActive

\* C3 (as claimed): whenever a POST /refresh overwrites the stored refresh
\* token and answers success, the user row at that moment holds the
\* presented token, is not revoked, not expired and active.
C3_RefreshWritesOnlyValidRow ==
  [][\A s \in Slots :
       (inflight[s].pc = "found" /\ inflight'[s].pc = "done" /\ inflight'[s].status = 200)
         => refreshable(row(inflight[s].id), inflight[s].tok)]_vars

\* C4: after 5 consecutive 'Invalid OTP' answers of one verify endpoint to
\* one principal (no other request answered in between, so no reissue), a
\* further submission that carries the stored, unexpired code is answered
\* 429 and no tokens are issued or stored.
C4_SixthSubmissionRejected ==
  [][IF /\ streak.n >= MAX_OTP_ATTEMPTS
        /\ res'.op = streak.op
        /\ res'.uid = streak.uid
        /\ res'.otp = row(streak.uid).currentOtp
        /\ now <= row(streak.uid).otpExpiresAt[1]
     THEN /\ res'.status = 429
          /\ res'.accessToken = Null /\ res'.refreshToken = Null
          /\ held' = held
          /\ users'[streak.uid][1].refreshToken = row(streak.uid).refreshToken
     ELSE TRUE]_vars

C4_Witness ==
  /\ res.op \in {"verifyRegisterOTP", "verifyLoginOTP"}
  /\ res.status = 429
  /\ res.uid \in Ids
  /\ row(res.uid).otpAttempts = MAX_OTP_ATTEMPTS
  /\ res.otp = row(res.uid).currentOtp
  /\ now <= row(res.uid).otpExpiresAt[1]

\* A verify request that follows, with nothing but the clock in between, a
\* successful call of the same operation and submits the same code for the
\* same phone number.
secondCall ==
  /\ res.op \in VerifyOps
  /\ res.status \in {200, 201}
  /\ res' # res
  /\ res'.op = res.op
  /\ res'.otp = res.otp
  /\ res'.phone = res.phone

otpState(user) ==
  <<user.currentOtp, user.otpExpiresAt, user.otpAttempts, user.otpIsUsed>>

\* When the OTP on file was issued: every issuing operation stores
\* otpExpiresAt = now + 5 minutes and nothing else sets that column.
issuedAt(user) ==
  user.otpExpiresAt[1] - OTP_EXPIRY_MINUTES * 60

\* A request for an OTP that resolves to user u while an OTP issued to u
\* less than 60 seconds ago is on file.
secondRequest(u) ==
  /\ now' = now
  /\ res'.op \in IssueOps
  /\ res'.uid = u
  /\ users[u] # Null
  /\ row(u).otpExpiresAt # Null
  /\ now < issuedAt(row(u)) + OTP_RATE_LIMIT_SECONDS

\* C6 (as claimed), for a second request that directly follows the first:
\* after an OTP request of u has succeeded, a request for an OTP handled
\* less than 60 seconds later is rejected with 429 and the stored OTP,
\* expiry and attempt counter are unchanged.
C6_SecondRequest429 ==
  [][\A u \in UserIds :
       IF res.op \in IssueOps /\ res.status = 200 /\ res.uid = u /\ secondRequest(u)
       THEN res'.status = 429 /\ otpState(users'[u][1]) = otpState(row(u))
       ELSE TRUE]_vars

\* C6 (amended): while an OTP issued less than 60 seconds ago is on file,
\* whatever happened since it was issued, a request for an OTP is rejected,
\* with 429 or with the error of a check the endpoint makes before the rate
\* check (400, 403, 409), and the stored OTP, expiry and attempt counter are
\* unchanged.
C6_SecondRequestRejected ==
  [][\A u \in UserIds :
       IF secondRequest(u)
       THEN /\ res'.status \in {429, 400, 403, 409}
            /\ otpState(users'[u][1]) = otpState(row(u))
       ELSE TRUE]_vars

C6_Witness ==
  /\ res.op \in IssueOps
  /\ res.status = 429
  /\ res.uid \in Ids
  /\ row(res.uid).otpExpiresAt # Null
  /\ issuedAt(row(res.uid)) < now
  /\ now < issuedAt(row(res.uid)) + OTP_RATE_LIMIT_SECONDS

\* C7 (as claimed): a token minted as a refresh token is rejected by the
\* routes that expect an access token (behind authenticate and behind
\* universalAuth), and a token minted as an access token is rejected by the
\* refresh endpoint and by the refresh-token guard, for both issuers and
\* whatever the secrets.
C7_KindIsolation ==
  [][\A t \in heldTokens :
       /\ (mintedAsRefresh(t) /\ (getCurrentUser(Some(t)) \/ getAllCategories(Some(t))))
            => res'.status = 401
       /\ (mintedAsAccess(t) /\ (refreshToken(Some(t)) \/ verifyRefreshTokenMiddleware(Some(t))))
            => res'.status = 401]_vars

C9_LogoutAllKillsOldTokens ==
  [][/\ (res.op = "logoutAll" /\ res.status = 200)
          => /\ row(res.uid).refreshToken = Null
             /\ row(res.uid).refreshTokenExpiresAt = Null
             /\ row(res.uid).refreshTokenRevokedAt # Null
     /\ \A s \in Slots :
          IF inflight[s].pc = "idle" /\ inflight'[s].pc # "idle"
          THEN IF inflight'[s].tok # Null
               THEN inflight'[s].tok[1] \in held.old
                      => (inflight'[s].pc = "done" /\ inflight'[s].status = 401)
               ELSE TRUE
          ELSE TRUE]_vars

\* The presented cookie is the stored, not yet revoked refresh token of u.
logoutMatches(u, presented) ==
  /\ presented # Null
  /\ row(u).refreshToken = presented
  /\ row(u).refreshTokenRevokedAt = Null

\* C10: a POST /logout of an authenticated user is answered 200 with the
\* refresh cookie cleared; when the presented cookie is the user's stored,
\* not yet revoked token the row gets refreshTokenRevokedAt = now and nothing
\* else but updatedAt changes; when no cookie is presented or it does not
\* match, the row is left as it was.  A rejected logout changes no row.
C10_LogoutFrame ==
  [][IF now' = now /\ res'.op = "logout"
     THEN IF res'.uid = "none"
          THEN res'.status = 401 /\ users' = users
          ELSE LET u == res'.uid IN
               /\ res'.status = 200
               /\ res'.cookie = "cleared"
               /\ IF logoutMatches(u, res'.tok)
                  THEN users' = [users EXCEPT ![u] =
                                   Some([row(u) EXCEPT !.refreshTokenRevokedAt = Some(now),
                                                       !.updatedAt = now])]
                  ELSE users' = users
     ELSE TRUE]_vars

C10_Witness ==
  /\ res.op = "logout"
  /\ res.status = 200
  /\ res.cookie = "cleared"
  /\ res.tok # Null
  /\ row(res.uid).refreshToken # Null
  /\ row(res.uid).refreshToken # res.tok
  /\ row(res.uid).refreshTokenRevokedAt = Null

\* C11 (as claimed): a POST /refresh that presents the stored, unexpired
\* refresh token of a user row that is not deleted and whose isActive is
\* false is answered 403, however the row became inactive.
C11_InactiveRefresh403 ==
  [][\A u \in UserIds :
       IF now' = now /\ res'.op = "refreshToken" /\ users[u] # Null
       THEN IF /\ res'.tok # Null
               /\ row(u).refreshToken = res'.tok
               /\ row(u).deletedAt = Null
               /\ ~row(u).isActive
               /\ now < res'.tok[1].exp
               /\ now <= row(u).refreshTokenExpiresAt[1]
            THEN res'.status = 403
            ELSE TRUE
       ELSE TRUE]_vars

inactivePrincipal(presented) ==
  /\ presented # Null
  /\ jwtVerify(presented[1], cfg.refreshSecret, FALSE) = "ok"
  /\ \E u \in Ids :
       /\ row(u).refreshToken = presented
       /\ row(u).deletedAt = Null
       /\ row(u).refreshTokenRevokedAt = Null
       /\ now <= row(u).refreshTokenExpiresAt[1]
       /\ ~row(u).isActive

\* The presented token is the stored refresh token of a row on which
\* refreshTokenRevokedAt is set.
revokedToken(presented) ==
  /\ presented # Null
  /\ \E u \in Ids : row(u).refreshToken = presented /\ row(u).refreshTokenRevokedAt # Null

universalRoutes ==
  {"getAllCategories"} \cup {r \in DOMAIN contentRoutes : contentRoutes[r] = <<"universalAuth">>}

\* The bearer is a token signed under the user access secret, not expired,
\* whose userId is that of an active, non-deleted user.
resolvesToUser(bearer) ==
  /\ bearer # Null
  /\ bearer[1].sec = cfg.accessSecret
  /\ now < bearer[1].exp
  /\ bearer[1].kind = "user"
  /\ users[bearer[1].id] # Null
  /\ row(bearer[1].id).deletedAt = Null
  /\ row(bearer[1].id).isActive

\* The bearer is a token signed under the admin access secret, not expired,
\* whose adminId is that of an active, non-deleted admin.
resolvesToAdmin(bearer) ==
  /\ bearer # Null
  /\ bearer[1].sec = cfg.adminAccessSecret
  /\ now < bearer[1].exp
  /\ bearer[1].kind = "admin"
  /\ admins[bearer[1].id] # Null
  /\ adminRow(bearer[1].id).deletedAt = Null
  /\ adminRow(bearer[1].id).isActive

\* C13: a request to a route behind universalAuth alone proceeds if and only
\* if its bearer resolves to an active, non-deleted user under the user access
\* secret or, failing that, to an active, non-deleted admin under the admin
\* access secret; when it proceeds exactly one of req.userId and req.adminId
\* is populated, the user's when the user probe succeeds; otherwise (no
\* header, or a token resolving to neither) it is answered 401 with neither.
C13_UniversalAuth ==
  [][IF now' = now /\ res'.op \in universalRoutes
     THEN LET b == res'.tok IN
          IF resolvesToUser(b)
            THEN res'.status = 200 /\ res'.userId = b[1].id /\ res'.adminId = "none"
          ELSE IF resolvesToAdmin(b)
            THEN res'.status = 200 /\ res'.adminId = b[1].id /\ res'.userId = "none"
          ELSE res'.status = 401 /\ res'.userId = "none" /\ res'.adminId = "none"
     ELSE TRUE]_vars

C13_Witness ==
  /\ res.op \in universalRoutes
  /\ res.status = 200
  /\ res.adminId = "a1"
  /\ res.userId = "none"
  /\ resolvesToAdmin(res.tok)
  /\ cfg.adminAccessSecret = cfg.accessSecret

\* The routes guarded by adminAuthenticate followed by adminRole(R), with R.
roleGated ==
  [registerAdmin |-> {"superadmin"}, getAllAdmins |-> {"superadmin"}]

\* The handler of an admin route ran: the guards attached an admin context
\* and neither of them answered.
handlerRan(r) ==
  r.adminId # "none" /\ r.status \notin {401, 403}

\* C14 (as claimed): on a route guarded by adminAuthenticate and adminRole(R)
\* the handler runs if and only if the bearer resolves to an active,
\* non-deleted admin whose stored role is in R; an admin whose role is not in
\* R is answered 403; a request that resolves to no admin is answered 401.
C14_RoleGate ==
  [][IF now' = now /\ res'.op \in DOMAIN roleGated
     THEN LET b == res'.tok IN
          IF resolvesToAdmin(b)
            THEN IF adminRow(b[1].id).role \in roleGated[res'.op]
                   THEN handlerRan(res') /\ res'.adminId = b[1].id
                   ELSE res'.status = 403
          ELSE res'.status = 401
     ELSE TRUE]_vars

\* The same in a deployment whose admin access secret is no secret of the
\* user side.
C14_RoleGateOwnSecret ==
  [][IF now' = now /\ res'.op \in DOMAIN roleGated /\ cfg.adminAccessSecret # cfg.accessSecret
     THEN LET b == res'.tok IN
          IF resolvesToAdmin(b)
            THEN IF adminRow(b[1].id).role \in roleGated[res'.op]
                   THEN handlerRan(res') /\ res'.adminId = b[1].id
                   ELSE res'.status = 403
          ELSE res'.status = 401
     ELSE TRUE]_vars

\* The endpoints of the login flow.
LoginOps == {"sendLoginOTP", "resendOTP", "verifyLoginOTP"}

\* C15 (as claimed): a request to POST /login/send-otp, /login/resend-otp or
\* /login/verify-otp for the phone number of a user who is unverified or
\* inactive is answered 403, the OTP on the row is neither issued nor
\* replaced and no tokens are handed out or stored; a login verify that
\* succeeds sets lastLogin.  Stated for requests the 60-second limit on OTP
\* requests does not apply to.
C15_LoginFlowGate ==
  [][IF now' = now /\ res'.op \in LoginOps
     THEN LET found == findByPhone(res'.phone) IN
          IF found = Null THEN TRUE
          ELSE LET u == found[1] IN
               IF checkOTPRateLimit(row(u)) > 0 THEN TRUE
               ELSE IF ~row(u).isVerified \/ ~row(u).isActive
               THEN /\ res'.status = 403
                    /\ otpState(users'[u][1]) = otpState(row(u))
                    /\ res'.accessToken = Null /\ res'.refreshToken = Null
                    /\ users'[u][1].refreshToken = row(u).refreshToken
               ELSE (res'.op = "verifyLoginOTP" /\ res'.status = 200)
                      => users'[u][1].lastLogin = Some(now)
     ELSE TRUE]_vars

\* The row carries an OTP issued at this second: it expires in five minutes,
\* has no failed attempt and is not used.
freshOtp(user) ==
  /\ user.currentOtp # Null
  /\ user.otpExpiresAt = Some(now + OTP_EXPIRY_MINUTES * 60)
  /\ user.otpAttempts = 0
  /\ ~user.otpIsUsed

\* The step left an unverified row with a fresh OTP for the phone number
\* where no row was.
createdRow(phoneNumber) ==
  \E id \in UserIds :
    /\ users[id] = Null
    /\ users'[id] # Null
    /\ users'[id][1].phoneNumber = phoneNumber
    /\ ~users'[id][1].isVerified
    /\ freshOtp(users'[id][1])

Emails == {"asha@example.com", "Asha@Example.com", "nobody@example.com"}

\* String.prototype.toLowerCase
toLowerCase(email) ==
  IF email = "Asha@Example.com" THEN "asha@example.com" ELSE email

\* bcrypt.genSalt and bcrypt.hash
hashPassword(password) == <<"bcrypt", password>>

\* bcrypt.compare
comparePassword(password, hashed) == hashed = Some(hashPassword(password))

\* SELECT ... FROM users WHERE email = $1 AND deleted_at IS NULL
findUserByEmail(email) ==
  LET hit == {i \in Ids : row(i).email = Some(toLowerCase(email)) /\ row(i).deletedAt = Null} IN
  IF hit = {} THEN Null ELSE Some(CHOOSE i \in hit : TRUE)

\* email VARCHAR(255) UNIQUE NOT NULL: no second row with the address,
\* deleted or not.
emailTaken(email) ==
  \E i \in Ids : row(i).email = Some(email)

\* INSERT INTO users (email, password, first_name, last_name) with the
\* table's defaults.
createUser(email, password) ==
  [phoneNumber |-> Null, firstName |-> Null, email |-> Some(email),
   password |-> Some(password), isActive |-> TRUE, isVerified |-> FALSE,
   lastLogin |-> Null, refreshToken |-> Null, refreshTokenExpiresAt |-> Null,
   refreshTokenRevokedAt |-> Null, currentOtp |-> Null, otpExpiresAt |-> Null,
   otpAttempts |-> 0, otpIsUsed |-> FALSE, deletedAt |-> Null, updatedAt |-> now]

\* token.service.js getRefreshTokenExpiry with config.jwt.refreshExpiry '7d'
getRefreshTokenExpiry == now + refreshExpiry

\* token TEXT NOT NULL UNIQUE of refresh_tokens
tokenStored(token) ==
  \E t \in refresh_tokens : t.token = token

\* INSERT INTO refresh_tokens (user_id, token, expires_at)
storeRefreshToken(userId, token, expiresAt) ==
  refresh_tokens \cup {[user_id |-> userId, token |-> token, expires_at |-> expiresAt,
                        revoked_at |-> Null]}

\* UPDATE users SET last_login = CURRENT_TIMESTAMP WHERE id = $1
updateLastLogin(table, userId) ==
  rowUpdate(table, userId, [lastLogin |-> Some(now)])

\* A call of the password service brought to its return or its throw.
PasswordFinish(r, table, stored, tokens) ==
  /\ res' = r
  /\ users' = table
  /\ refresh_tokens' = stored
  /\ held' = keep(r, tokens)
  /\ streak' = nextStreak(r)
  /\ UNCHANGED <<now, ticks, cfg, inflight, admins, adminHeld, rest>>

\* The answer of a call: 200 for a return; a thrown Error carries no
\* statusCode, which the error handler answers with 500 and its message,
\* and a unique violation of the database with 409.
PasswordReply(op, email, password, uid, status, msg) ==
  [Reply(op, "none", uid, status, msg)
     EXCEPT !.email = email, !.password = Some(password)]

\* auth.service registerUser
registerUser(email, password) ==
  LET op == "registerUser"
      R(uid, status, msg) == PasswordReply(op, email, password, uid, status, msg)
      existingUser == findUserByEmail(email) IN
  IF existingUser # Null
    THEN PasswordFinish(R(existingUser[1], 500, "Email already registered"),
                        users, refresh_tokens, Null)
  ELSE IF emailTaken(toLowerCase(email))
    THEN PasswordFinish(R("none", 409, "Resource already exists"), users, refresh_tokens, Null)
  ELSE \E id \in UserIds \ Ids :
         LET created == rowInsert(users, id,
                                  createUser(toLowerCase(email), hashPassword(password)))
             accessToken == generateAccessToken(id)
             refreshTok == generateRefreshToken(id) IN
         IF tokenStored(refreshTok)
           THEN PasswordFinish(R(id, 409, "Resource already exists"),
                               created, refresh_tokens, Null)
           ELSE PasswordFinish([R(id, 200, "registered")
                                  EXCEPT !.accessToken = Some(accessToken),
                                         !.refreshToken = Some(refreshTok)],
                               created,
                               storeRefreshToken(id, refreshTok, getRefreshTokenExpiry),
                               Some([accessToken |-> accessToken, refreshToken |-> refreshTok]))

\* auth.service loginUser; fault tells that bcrypt.compare raises an error,
\* which comparePassword catches and replaces by its own.
loginUser(email, password, fault) ==
  LET op == "loginUser"
      R(uid, status, msg) ==
        [PasswordReply(op, email, password, uid, status, msg) EXCEPT !.fault = fault]
      user == findUserByEmail(email) IN
  IF user = Null
    THEN PasswordFinish(R("none", 500, "Invalid email or password"),
                        users, refresh_tokens, Null)
  ELSE IF ~row(user[1]).isActive
    THEN PasswordFinish(R(user[1], 500, "Account is deactivated"),
                        users, refresh_tokens, Null)
  ELSE IF fault
    THEN PasswordFinish(R(user[1], 500, "Error verifying password"),
                        users, refresh_tokens, Null)
  ELSE IF ~comparePassword(password, row(user[1]).password)
    THEN PasswordFinish(R(user[1], 500, "Invalid email or password"),
                        users, refresh_tokens, Null)
  ELSE LET accessToken == generateAccessToken(user[1])
           refreshTok == generateRefreshToken(user[1]) IN
       IF tokenStored(refreshTok)
         THEN PasswordFinish(R(user[1], 409, "Resource already exists"),
                             users, refresh_tokens, Null)
         ELSE PasswordFinish([R(user[1], 200, "logged in")
                                EXCEPT !.accessToken = Some(accessToken),
                                       !.refreshToken = Some(refreshTok)],
                             updateLastLogin(users, user[1]),
                             storeRefreshToken(user[1], refreshTok, getRefreshTokenExpiry),
                             Some([accessToken |-> accessToken, refreshToken |-> refreshTok]))

\* SELECT ... FROM refresh_tokens WHERE token = $1 AND revoked_at IS NULL
findRefreshToken(token) ==
  {t \in refresh_tokens : t.token = token /\ t.revoked_at = Null}

\* UPDATE refresh_tokens SET revoked_at = CURRENT_TIMESTAMP
\* WHERE token = $1 AND revoked_at IS NULL
revokeRefreshToken(token) ==
  {IF t.token = token /\ t.revoked_at = Null THEN [t EXCEPT !.revoked_at = Some(now)] ELSE t :
     t \in refresh_tokens}

\* The refresh tokens the password service has handed out.
StoredTokens == {Some(t.token) : t \in refresh_tokens}

\* auth.service refreshAccessToken
refreshAccessToken(presented) ==
  LET op == "refreshAccessToken"
      token == presented[1]
      v == verifyRefreshToken(token)
      storedToken == findRefreshToken(token)
      R(uid, status, msg) == [Reply(op, "none", uid, status, msg) EXCEPT !.tok = presented] IN
  IF v # "ok"
    THEN PasswordFinish(R("none", 500, v), users, refresh_tokens, Null)
  ELSE IF storedToken = {}
    THEN PasswordFinish(R("none", 500, "Invalid refresh token"), users, refresh_tokens, Null)
  ELSE IF \E t \in storedToken : t.expires_at < now
    THEN PasswordFinish(R("none", 500, "Refresh token expired"), users, refresh_tokens, Null)
  ELSE IF token.kind # "user" \/ findById(token.id) = Null
    THEN PasswordFinish(R("none", 500, "User not found or inactive"),
                        users, refresh_tokens, Null)
  ELSE IF ~row(token.id).isActive
    THEN PasswordFinish(R("none", 500, "User not found or inactive"),
                        users, refresh_tokens, Null)
  ELSE LET revoked == revokeRefreshToken(token)
           accessToken == generateAccessToken(token.id)
           refreshTok == generateRefreshToken(token.id) IN
       \* the revoked row still holds its token
       IF tokenStored(refreshTok)
         THEN PasswordFinish(R(token.id, 409, "Resource already exists"), users, revoked, Null)
         ELSE PasswordFinish([R(token.id, 200, "refreshed")
                                EXCEPT !.accessToken = Some(accessToken),
                                       !.refreshToken = Some(refreshTok)],
                             users,
                             revoked \cup {[user_id |-> token.id, token |-> refreshTok,
                                            expires_at |-> getRefreshTokenExpiry,
                                            revoked_at |-> Null]},
                             Some([accessToken |-> accessToken, refreshToken |-> refreshTok]))

\* auth.service logoutUser
logoutUser(presented) ==
  LET R == [Reply("logoutUser", "none", "none", 200, "logged out") EXCEPT !.tok = presented] IN
  IF presented = Null
    THEN PasswordFinish(R, users, refresh_tokens, Null)
    ELSE PasswordFinish(R, users, revokeRefreshToken(presented[1]), Null)

\* The password service beside the account routes of its users and the admin
\* login: one deployment, no account yet.
InitPassword ==
  /\ now = 0
  /\ ticks = 0
  /\ cfg = [accessSecret |-> "access-secret", refreshSecret |-> "refresh-secret",
            adminAccessSecret |-> "admin-access-secret"]
  /\ users = [i \in UserIds |-> Null]
  /\ held = [ctl |-> Null, prev |-> Null, svc |-> Null, old |-> {}]
  /\ res = Reply("none", "none", "none", 0, "none")
  /\ streak = [op |-> "none", uid |-> "none", n |-> 0]
  /\ inflight = [s \in Slots |-> idle]
  /\ admins = seedAdmins
  /\ adminHeld = {}
  /\ refresh_tokens = {}
  /\ InitRest

NextPassword ==
  \/ \E d \in {1, accessExpiry} : Tick(d)
  \/ \E e \in Emails \ {"nobody@example.com"} : registerUser(e, "correct horse")
  \/ \E e \in Emails, p \in Passwords : loginUser(e, p, FALSE)
  \/ \E t \in StoredTokens : refreshAccessToken(t)
  \/ \E t \in StoredTokens \cup {Null} : logoutUser(t)
  \/ \E b \in SvcHeaders : deactivateAccount(b)
  \/ \E u \in UserIds : deleteUser(u)
  \/ \E e \in AdminEmails, p \in Passwords : loginAdmin(e, p)
  \/ \E b \in AdminBearers : deactivateAdmin(b)

SpecPassword == InitPassword /\ [][NextPassword]_vars

\* The password service with a bcrypt that may fail.
NextFault ==
  \/ \E d \in {1, accessExpiry} : Tick(d)
  \/ \E e \in Emails \ {"nobody@example.com"} : registerUser(e, "correct horse")
  \/ \E e \in Emails, p \in Passwords, f \in BOOLEAN : loginUser(e, p, f)
  \/ \E t \in StoredTokens : refreshAccessToken(t)
  \/ \E b \in SvcHeaders : deactivateAccount(b)

SpecFault == InitPassword /\ [][NextFault]_vars

\* ---------------------------------------------------------------- C17
\* C17: a login with a wrong password is answered like a login for an email
\* that does not exist, whether the account is active or not; the answer
\* that tells of a deactivated account is given only to a caller that
\* supplied the account's password.  Of loginUser and of loginAdmin.
C17_WrongPasswordGeneric ==
  [][/\ IF now' = now /\ res'.op = "loginUser"
          THEN LET user == findUserByEmail(res'.email) IN
               IF user = Null
                 THEN res'.msg = "Invalid email or password"
               ELSE IF ~comparePassword(res'.password[1], row(user[1]).password)
                 THEN /\ res'.msg = "Invalid email or password"
                      /\ res'.status = 500
               ELSE TRUE
          ELSE TRUE
     /\ IF now' = now /\ res'.op = "loginAdmin"
          THEN LET found == findAdminByEmail(res'.phone) IN
               IF found = Null
                 THEN res'.msg = "Invalid email or password"
               ELSE IF ~compare(res'.otp[1], adminRow(found[1]).password)
                 THEN /\ res'.msg = "Invalid email or password"
                      /\ res'.status = 401
               ELSE TRUE
          ELSE TRUE]_vars

\* ---------------------------------------------------------------- C18
\* C18: the password flow counts no failed attempts: after five or more
\* consecutive wrong passwords for an active account, the next login with
\* the account's password returns a token pair.
C18_NoAttemptCeiling ==
  [][IF /\ streak.op = "loginUser"
        /\ streak.n >= WrongPasswords
        /\ now' = now
        /\ res'.op = "loginUser"
        /\ res'.uid = streak.uid
     THEN IF /\ findById(streak.uid) # Null
             /\ row(streak.uid).isActive
             /\ comparePassword(res'.password[1], row(streak.uid).password)
          THEN /\ res'.status = 200
               /\ res'.accessToken # Null
               /\ res'.refreshToken # Null
          ELSE TRUE
     ELSE TRUE]_vars

\* ---------------------------------------------------------------- C19
\* The create, update and delete routes of the three reference-data routers.
writeRoutes ==
  {"createDistrict", "updateDistrict", "deleteDistrict",
   "createTaluka", "updateTaluka", "deleteTaluka",
   "createCategory", "updateCategory", "deleteCategory"}

\* The bearer is an admin access token of this deployment, not expired, whose
\* admin is active and not deleted.
activeAdminBearer(bearer) ==
  /\ bearer # Null
  /\ jwtVerify(bearer[1], cfg.adminAccessSecret, FALSE) = "ok"
  /\ bearer[1].kind = "admin"
  /\ findAdmin(bearer[1].id) # Null
  /\ adminRow(bearer[1].id).isActive
  /\ adminRow(bearer[1].id).deletedAt = Null

\* C19: a request that carries a user context and no admin context never
\* reaches a create, update or delete handler of districts, talukas or
\* categories; such a handler runs only for a bearer that adminAuthenticate
\* resolves to an active, non-deleted admin, whose id is the request's admin.
C19_WriteNeedsAdmin ==
  [][IF now' = now /\ res'.op \in writeRoutes
     THEN /\ res'.userId # "none" => res'.msg # "handled"
          /\ res'.msg = "handled" =>
               /\ activeAdminBearer(res'.tok)
               /\ res'.adminId = res'.tok[1].id
     ELSE TRUE]_vars

\* A user's request to a write route was turned away, and an admin's ran.
C19_Witness ==
  /\ res.op \in writeRoutes
  /\ res.userId = "u1"
  /\ res.adminId = "none"
  /\ res.status \in {401, 500}
  /\ res.tok # Null
  /\ verifyAccessToken(res.tok[1]) = "ok"

\* ---------------------------------------------------------------- C20
\* The GET routes of the reference data.
readRoutes ==
  {"getAllDistricts", "getDistrictById", "getTalukasByDistrictId",
   "getAllTalukas", "getTalukaById", "getAllCategories", "getCategoryById"}

\* C20: every read route of the reference data answers a request of any
\* authenticated principal, an active user or an active admin, from its
\* handler.
C20_ReadsForAnyPrincipal ==
  [][IF now' = now /\ res'.op \in readRoutes
     THEN IF resolvesToUser(res'.tok) \/ resolvesToAdmin(res'.tok)
            THEN res'.status = 200
            ELSE TRUE
     ELSE TRUE]_vars

\* ==================================================== content controllers
\* The controllers of districts, talukas, categories, posts and news, for a
\* request that has passed the guards of its route.  A row is its isActive
\* column; the one district, taluka and category carry the one name.
entity(kind, id) == entities[kind][id][1]

\* Model.findByPk(id) and Model.findOne({where: {id}})
findByPk(kind, id) ==
  IF entities[kind][id] # Null THEN Some(id) ELSE Null

\* Model.findOne({where: {id, isActive: true}})
findOneActive(kind, id) ==
  IF entities[kind][id] # Null /\ entity(kind, id).isActive THEN Some(id) ELSE Null

\* Model.findAll({where: {isActive: true}})
findAllActive(kind) ==
  {i \in EntityIds : findOneActive(kind, i) # Null}

\* A content request brought to its response.
EntityFinish(r, table) ==
  /\ res' = r
  /\ entities' = table
  /\ streak' = nextStreak(r)
  /\ UNCHANGED <<now, ticks, cfg, users, held, inflight, admins, adminHeld, refresh_tokens,
                 limits, thrown>>

\* The reply of a content route: the kind and id it named and the ids of the
\* rows its body carries.
EntityReply(op, kind, id, status, msg, rows) ==
  [Reply(op, kind, id, status, msg) EXCEPT !.data = rows]

\* A list handler: findAll where isActive.
listHandler(op, kind) ==
  EntityFinish(EntityReply(op, kind, "none", 200, "retrieved", findAllActive(kind)), entities)

\* A get-by-id handler over the row its lookup found.
getHandler(op, kind, id, found, notFound) ==
  IF found = Null
    THEN EntityFinish(EntityReply(op, kind, id, 404, notFound, {}), entities)
    ELSE EntityFinish(EntityReply(op, kind, id, 200, "retrieved", {id}), entities)

\* Model.create with isActive as given.
createRow(op, kind, id, isActive) ==
  EntityFinish(EntityReply(op, kind, id, 200, "created", {id}),
               [entities EXCEPT ![kind][id] = Some([isActive |-> isActive])])

\* A create handler of a kind whose name is unique: findOne({where: {name}}).
createNamed(op, kind, exists) ==
  IF \E i \in EntityIds : entities[kind][i] # Null
    THEN EntityFinish(EntityReply(op, kind, "none", 409, exists, {}), entities)
    ELSE \E id \in EntityIds : createRow(op, kind, id, TRUE)

\* An update handler with isActive in the body: findByPk, then update.
updateHandler(op, kind, id, isActive, notFound) ==
  IF findByPk(kind, id) = Null
    THEN EntityFinish(EntityReply(op, kind, id, 404, notFound, {}), entities)
    ELSE EntityFinish(EntityReply(op, kind, id, 200, "updated", {id}),
                      [entities EXCEPT ![kind][id] = Some([isActive |-> isActive])])

\* A delete handler: findByPk, then update({isActive: false}).
softDelete(op, kind, id, notFound) ==
  IF findByPk(kind, id) = Null
    THEN EntityFinish(EntityReply(op, kind, id, 404, notFound, {}), entities)
    ELSE EntityFinish(EntityReply(op, kind, id, 200, "deleted", {}),
                      [entities EXCEPT ![kind][id] = Some([isActive |-> FALSE])])

\* district.controller.js
getAllDistricts == listHandler("getAllDistricts", "district")

getDistrictById(id) ==
  getHandler("getDistrictById", "district", id, findByPk("district", id), "District not found")

createDistrict == createNamed("createDistrict", "district", "District already exists")

updateDistrict(id, isActive) ==
  updateHandler("updateDistrict", "district", id, isActive, "District not found")

deleteDistrict(id) == softDelete("deleteDistrict", "district", id, "District not found")

\* taluka.controller.js; createTaluka and updateTaluka with the districtId of
\* an existing district.
getAllTalukas == listHandler("getAllTalukas", "taluka")

getTalukaById(id) ==
  getHandler("getTalukaById", "taluka", id, findByPk("taluka", id), "Taluka not found")

createTaluka ==
  IF \A d \in EntityIds : findByPk("district", d) = Null
    THEN EntityFinish(EntityReply("createTaluka", "taluka", "none", 404, "District not found", {}),
                      entities)
    ELSE createNamed("createTaluka", "taluka", "Taluka already exists in this district")

updateTaluka(id, isActive) ==
  updateHandler("updateTaluka", "taluka", id, isActive, "Taluka not found")

deleteTaluka(id) == softDelete("deleteTaluka", "taluka", id, "Taluka not found")

\* category.controller.js
categoryFindAll == listHandler("getAllCategories", "category")

getCategoryById(id) ==
  getHandler("getCategoryById", "category", id, findOneActive("category", id),
             "Category not found")

createCategory == createNamed("createCategory", "category", "Category already exists")

updateCategory(id, isActive) ==
  updateHandler("updateCategory", "category", id, isActive, "Category not found")

deleteCategory(id) == softDelete("deleteCategory", "category", id, "Category not found")

\* post.controller.js; createPost with the ids of an existing category,
\* district and taluka.
getAllPosts == listHandler("getAllPosts", "post")

getPostById(id) ==
  getHandler("getPostById", "post", id, findOneActive("post", id), "Post not found")

createPost ==
  IF findByPk("category", "e1") = Null
    THEN EntityFinish(EntityReply("createPost", "post", "none", 404, "Category not found", {}),
                      entities)
  ELSE IF findByPk("district", "e1") = Null
    THEN EntityFinish(EntityReply("createPost", "post", "none", 404, "District not found", {}),
                      entities)
  ELSE IF findByPk("taluka", "e1") = Null
    THEN EntityFinish(EntityReply("createPost", "post", "none", 404, "Taluka not found", {}),
                      entities)
  ELSE \E id \in EntityIds :
         /\ findByPk("post", id) = Null
         /\ createRow("createPost", "post", id, TRUE)

updatePost(id, isActive) ==
  updateHandler("updatePost", "post", id, isActive, "Post not found")

deletePost(id) == softDelete("deletePost", "post", id, "Post not found")

\* news.controller.js
getAllNews == listHandler("getAllNews", "news")

getNewsById(id) ==
  getHandler("getNewsById", "news", id, findOneActive("news", id), "News not found")

createNews(isActive) ==
  \E id \in EntityIds :
    /\ findByPk("news", id) = Null
    /\ createRow("createNews", "news", id, isActive)

updateNews(id, isActive) ==
  updateHandler("updateNews", "news", id, isActive, "News not found")

\* deleteNews: findByPk, then news.destroy() on a model that is not paranoid.
deleteNews(id) ==
  IF findByPk("news", id) = Null
    THEN EntityFinish(EntityReply("deleteNews", "news", id, 404, "News not found", {}), entities)
    ELSE EntityFinish(EntityReply("deleteNews", "news", id, 200, "deleted", {}),
                      [entities EXCEPT !["news"][id] = Null])

InitEntities ==
  /\ now = 0
  /\ ticks = 0
  /\ cfg = [accessSecret |-> "access-secret", refreshSecret |-> "refresh-secret",
            adminAccessSecret |-> "admin-access-secret"]
  /\ users = [i \in UserIds |-> Null]
  /\ held = [ctl |-> Null, prev |-> Null, svc |-> Null, old |-> {}]
  /\ res = Reply("none", "none", "none", 0, "none")
  /\ streak = [op |-> "none", uid |-> "none", n |-> 0]
  /\ inflight = [s \in Slots |-> idle]
  /\ admins = seedAdmins
  /\ adminHeld = {}
  /\ refresh_tokens = {}
  /\ InitRest

NextEntities ==
  \/ getAllDistricts
  \/ \E i \in EntityIds : getDistrictById(i)
  \/ createDistrict
  \/ \E i \in EntityIds, a \in BOOLEAN : updateDistrict(i, a)
  \/ \E i \in EntityIds : deleteDistrict(i)
  \/ getAllTalukas
  \/ \E i \in EntityIds : getTalukaById(i)
  \/ createTaluka
  \/ \E i \in EntityIds, a \in BOOLEAN : updateTaluka(i, a)
  \/ \E i \in EntityIds : deleteTaluka(i)
  \/ categoryFindAll
  \/ \E i \in EntityIds : getCategoryById(i)
  \/ createCategory
  \/ \E i \in EntityIds, a \in BOOLEAN : updateCategory(i, a)
  \/ \E i \in EntityIds : deleteCategory(i)
  \/ getAllPosts
  \/ \E i \in EntityIds : getPostById(i)
  \/ createPost
  \/ \E i \in EntityIds, a \in BOOLEAN : updatePost(i, a)
  \/ \E i \in EntityIds : deletePost(i)
  \/ getAllNews
  \/ \E i \in EntityIds : getNewsById(i)
  \/ \E a \in BOOLEAN : createNews(a)
  \/ \E i \in EntityIds, a \in BOOLEAN : updateNews(i, a)
  \/ \E i \in EntityIds : deleteNews(i)

SpecEntities == InitEntities /\ [][NextEntities]_vars

\* ---------------------------------------------------------------- C21
DeleteOps ==
  {"deleteDistrict", "deleteTaluka", "deleteCategory", "deletePost", "deleteNews"}

ReadOps ==
  {"getAllDistricts", "getDistrictById", "getAllTalukas", "getTalukaById",
   "getAllCategories", "getCategoryById", "getAllPosts", "getPostById",
   "getAllNews", "getNewsById"}

\* C21: a delete of a content entity keeps the row and sets isActive to
\* false, and no list or get-by-id of the entity's kind returns a row whose
\* isActive is false.
C21_SoftDelete ==
  [][/\ IF res'.op \in DeleteOps /\ res'.status = 200 /\ res' # res
          THEN /\ entities'[res'.phone][res'.uid] # Null
               /\ ~entities'[res'.phone][res'.uid][1].isActive
          ELSE TRUE
     /\ IF res'.op \in ReadOps /\ res' # res
          THEN \A i \in res'.data : entity(res'.phone, i).isActive
          ELSE TRUE]_vars

\* ---------------------------------------------------------------- C22
\* The code is the one issued to the user, not used, not expired and with
\* attempts left.
usableOtp(user, otp) ==
  /\ user.currentOtp = otp
  /\ ~user.otpIsUsed
  /\ user.otpExpiresAt # Null
  /\ now <= user.otpExpiresAt[1]
  /\ user.otpAttempts < MAX_OTP_ATTEMPTS

\* C22: PUT /users/reactivate sent without an access token, for a
\* deactivated, non-deleted user and with the user's valid, unused, unexpired
\* OTP, is answered 200 and leaves the user active.
C22_ReactivateWithoutToken ==
  [][IF now' = now /\ res'.op = "reactivateAccount" /\ res'.tok = Null
     THEN LET found == findByPhone(res'.phone) IN
          IF found = Null THEN TRUE
          ELSE IF ~row(found[1]).isActive /\ usableOtp(row(found[1]), res'.otp)
            THEN /\ res'.status = 200
                 /\ users'[found[1]][1].isActive
          ELSE TRUE
     ELSE TRUE]_vars

\* ============================================================ rate limiters
\* The rateLimit middleware of express-rate-limit with its memory store, as
\* security.middleware.js configures it.  What the rest of the route answers
\* is an input of the middleware: its status code.
authLimiter ==
  [name |-> "authLimiter", windowMs |-> 15 * 60, max |-> 5, skipSuccessfulRequests |-> TRUE,
   message |-> "Too many login attempts, please try again after 15 minutes"]

registerLimiter ==
  [name |-> "registerLimiter", windowMs |-> 60 * 60, max |-> 3,
   skipSuccessfulRequests |-> FALSE,
   message |-> "Too many registration attempts, please try again later"]

\* auth.routes.js: the limiter in front of each route.
limitedRoutes ==
  [sendRegisterOTP   |-> registerLimiter,
   verifyRegisterOTP |-> registerLimiter,
   sendLoginOTP      |-> authLimiter,
   resendOTP         |-> authLimiter,
   verifyLoginOTP    |-> authLimiter]

\* Status codes the controllers answer with: successes, a failure of the
\* client, the controller's own OTP rate limit.
Outcomes == {200, 201, 401, 429}

\* The requests over max of one client that are counted at most.
MaxOver == 2

\* MemoryStore.increment: a key without a live window starts one.
increment(limiter, key) ==
  LET entry == limits[limiter.name][key]
      live == IF entry.resetTime <= now
                THEN [totalHits |-> 0, resetTime |-> now + limiter.windowMs,
                      registrations |-> 0]
                ELSE entry IN
  [live EXCEPT !.totalHits = @ + 1]

\* The hit of a request to POST /register/send-otp begins a registration.
begun(route, entry) ==
  IF route = "sendRegisterOTP" THEN [entry EXCEPT !.registrations = @ + 1] ELSE entry

\* MemoryStore.decrement
decrement(entry) ==
  [entry EXCEPT !.totalHits = IF @ > 0 THEN @ - 1 ELSE 0]

\* A request through a rate limiter brought to its response.
LimitFinish(r, store) ==
  /\ res' = r
  /\ limits' = store
  /\ streak' = nextStreak(r)
  /\ UNCHANGED <<now, ticks, cfg, users, held, inflight, admins, adminHeld, refresh_tokens,
                 entities, thrown>>

\* rateLimit with successful requests counted like the others.
rateLimit_countAll(route, key, outcome) ==
  LET limiter == limitedRoutes[route]
      counted == begun(route, increment(limiter, key))
      R(status, msg) == [Reply(route, "none", "none", status, msg) EXCEPT !.ip = key] IN
  /\ counted.totalHits <= limiter.max + MaxOver
  /\ IF counted.totalHits > limiter.max
       THEN LimitFinish(R(429, limiter.message),
                        [limits EXCEPT ![limiter.name][key] = counted])
       ELSE LimitFinish(R(outcome, "next"),
                        [limits EXCEPT ![limiter.name][key] = counted])

\* rateLimit(options) in front of a route: the hit is counted, a count over
\* max is answered by the handler, otherwise the route runs, and with
\* skipSuccessfulRequests the hit of a response below 400 is taken back when
\* the response has finished.
rateLimit(route, key, outcome) ==
  LET limiter == limitedRoutes[route]
      counted == begun(route, increment(limiter, key))
      R(status, msg) == [Reply(route, "none", "none", status, msg) EXCEPT !.ip = key] IN
  /\ counted.totalHits <= limiter.max + MaxOver
  /\ IF counted.totalHits > limiter.max
       THEN LimitFinish(R(429, limiter.message),
                        [limits EXCEPT ![limiter.name][key] = counted])
       ELSE LimitFinish(R(outcome, "next"),
                        [limits EXCEPT ![limiter.name][key] =
                           IF limiter.skipSuccessfulRequests /\ outcome < 400
                             THEN decrement(counted) ELSE counted])

\* The windows that pass at most.
MaxWindows == 2

\* The clock moving by a second or by a window of a limiter.
Elapse(d) ==
  /\ ticks < MaxWindows
  /\ now' = now + d
  /\ ticks' = ticks + 1
  /\ UNCHANGED <<cfg, users, held, res, streak, inflight, others>>

InitLimiter ==
  /\ now = 0
  /\ ticks = 0
  /\ cfg = [accessSecret |-> "access-secret", refreshSecret |-> "refresh-secret",
            adminAccessSecret |-> "admin-access-secret"]
  /\ users = [i \in UserIds |-> Null]
  /\ held = [ctl |-> Null, prev |-> Null, svc |-> Null, old |-> {}]
  /\ res = Reply("none", "none", "none", 0, "none")
  /\ streak = [op |-> "none", uid |-> "none", n |-> 0]
  /\ inflight = [s \in Slots |-> idle]
  /\ admins = seedAdmins
  /\ adminHeld = {}
  /\ refresh_tokens = {}
  /\ InitRest

\* The login routes behind authLimiter.
NextLimiter ==
  \/ \E d \in {1, authLimiter.windowMs} : Elapse(d)
  \/ \E r \in {"sendLoginOTP", "resendOTP", "verifyLoginOTP"}, k \in Ips, o \in Outcomes :
       rateLimit(r, k, o)

SpecLimiter == InitLimiter /\ [][NextLimiter]_vars

\* The registration routes behind registerLimiter.
NextRegisterLimiter ==
  \/ \E d \in {1, registerLimiter.windowMs} : Elapse(d)
  \/ \E r \in {"sendRegisterOTP", "verifyRegisterOTP"}, k \in Ips, o \in Outcomes :
       rateLimit(r, k, o)

SpecRegisterLimiter == InitLimiter /\ [][NextRegisterLimiter]_vars

\* ---------------------------------------------------------------- C23
\* The hits of a key that count in the current window of a limiter.
liveHits(limiter, key) ==
  IF limits[limiter.name][key].resetTime <= now THEN 0
  ELSE limits[limiter.name][key].totalHits

AuthLimited == {r \in DOMAIN limitedRoutes : limitedRoutes[r] = authLimiter}

\* C23: behind authLimiter, for one client key and within one window of 15
\* minutes: a request is counted if and only if it reaches the controller
\* and ends with a status of 400 or more; once 5 are counted every further
\* request is answered 429 by the limiter without reaching the controller;
\* the count of a key starts again when its window has passed, and the
\* requests of another key change nothing of it.
C23_AuthLimiter ==
  [][IF now' = now /\ res'.op \in AuthLimited
     THEN LET key == res'.ip
              hits == liveHits(authLimiter, key)
              after == limits'["authLimiter"][key] IN
          /\ IF hits >= authLimiter.max
               THEN /\ res'.status = 429
                    /\ res'.msg = authLimiter.message
               ELSE /\ res'.msg = "next"
                    /\ after.totalHits = hits + (IF res'.status >= 400 THEN 1 ELSE 0)
          /\ after.resetTime = IF limits["authLimiter"][key].resetTime <= now
                                 THEN now + 15 * 60
                                 ELSE limits["authLimiter"][key].resetTime
          /\ \A k \in Ips \ {key} : limits'["authLimiter"][k] = limits["authLimiter"][k]
     ELSE TRUE]_vars

\* In a second window a client is turned away again, after requests of its
\* own that succeeded and five that failed.
C23_Witness ==
  /\ res.op = "verifyLoginOTP"
  /\ res.status = 429
  /\ res.msg = authLimiter.message
  /\ now >= authLimiter.windowMs
  /\ limits["authLimiter"][res.ip].resetTime > authLimiter.windowMs
  /\ limits["authLimiter"][res.ip].totalHits = authLimiter.max + 1

\* ---------------------------------------------------------------- C24
RegisterLimited == {r \in DOMAIN limitedRoutes : limitedRoutes[r] = registerLimiter}

\* C24: behind registerLimiter a client is answered 429 by the limiter if
\* and only if the request belongs to a registration beyond the third that
\* the client's IP began within the hour: the send-otp request and the
\* verify-otp attempts of the first three registrations are let through, the
\* fourth registration is answered 429.
C24_RegisterLimiter ==
  [][IF now' = now /\ res'.op \in RegisterLimited
     THEN LET begunNow == limits'["registerLimiter"][res'.ip].registrations IN
          IF begunNow <= registerLimiter.max
            THEN res'.msg = "next"
            ELSE res'.status = 429 /\ res'.msg = registerLimiter.message
     ELSE TRUE]_vars

\* ---------------------------------------------------------------- C25
\* The response carries a token pair whose refresh token went into one new
\* live row of refresh_tokens, every other row being left as it was.
addsLiveRow(r) ==
  /\ r.status = 200
  /\ r.refreshToken # Null
  /\ ~tokenStored(r.refreshToken[1])
  /\ \E t \in refresh_tokens' :
       /\ t.token = r.refreshToken[1]
       /\ t.revoked_at = Null
       /\ t.expires_at > now
       /\ refresh_tokens' = refresh_tokens \cup {t}

\* C25: in the password flow every login of an active user with its
\* password, at any time and also in the clock second of an earlier login or
\* of the registration, succeeds and adds one new live refresh-token row
\* without touching the user's other rows; so does every registration that
\* succeeds.
C25_MultiDevice ==
  [][/\ IF now' = now /\ res'.op = "loginUser"
          THEN LET user == findUserByEmail(res'.email) IN
               IF user = Null THEN TRUE
               ELSE IF /\ row(user[1]).isActive
                       /\ comparePassword(res'.password[1], row(user[1]).password)
                 THEN addsLiveRow(res')
               ELSE TRUE
          ELSE TRUE
     /\ IF now' = now /\ res'.op = "registerUser" /\ res'.status = 200
          THEN addsLiveRow(res')
          ELSE TRUE]_vars

\* ---------------------------------------------------------------- C26
\* C26: in the OTP mode a completed OTP verification or refresh of a user
\* leaves none of the refresh tokens issued to that user before it
\* acceptable to POST /refresh: only the token of the latest response is.
C26_SingleSession ==
  [][IF /\ now' = now
        /\ res'.op \in {"verifyRegisterOTP", "verifyLoginOTP", "refreshToken"}
        /\ res'.status \in {200, 201}
     THEN \A p \in heldPairs :
            IF p.refreshToken.id = res'.uid
              THEN ~refreshable(users'[res'.uid][1], Some(p.refreshToken))
              ELSE TRUE
     ELSE TRUE]_vars

\* ---------------------------------------------------------------- C27
\* C27: a login during which the hash comparison raises an internal error
\* ends like a login with a wrong password, with the generic
\* 'Invalid email or password', and issues nothing.
C27_FailsClosed ==
  [][IF now' = now /\ res'.op = "loginUser" /\ res'.fault
     THEN /\ res'.msg = "Invalid email or password"
          /\ res'.accessToken = Null
          /\ refresh_tokens' = refresh_tokens
     ELSE TRUE]_vars

\* ======================================================== the error handler
\* error.middleware.js errorHandler, a function of the error it is handed and
\* of NODE_ENV.
Environments == {"development", "production", "test"}

\* What an error object carries; <<>> for a property it lacks.
Errors ==
  [statusCode : {Null, Some(404)},
   message    : {"", "connect ECONNREFUSED 10.0.0.5:5432"},
   code       : {Null, Some("23505"), Some("23503"), Some("23502"), Some("22P02"),
                 Some("42P01"), Some("ECONNREFUSED")},
   name       : {"Error", "JsonWebTokenError", "TokenExpiredError", "ValidationError"},
   errors     : {Null, Some("email is invalid")}]

\* The switch over err.code.
databaseError(code) ==
  IF code = "23505" THEN [statusCode |-> 409, message |-> "Resource already exists"]
  ELSE IF code = "23503" THEN [statusCode |-> 400, message |-> "Invalid reference"]
  ELSE IF code = "23502" THEN [statusCode |-> 400, message |-> "Required field missing"]
  ELSE IF code = "22P02" THEN [statusCode |-> 400, message |-> "Invalid data format"]
  ELSE IF code = "42P01" THEN [statusCode |-> 500, message |-> "Database configuration error"]
  ELSE [statusCode |-> 500, message |-> "Database error"]

\* The status and the body of the response: its message and which of the
\* keys stack and errors it has.
errorResponse(err, env) ==
  LET first == [statusCode |-> IF err.statusCode # Null THEN err.statusCode[1] ELSE 500,
                message |-> IF err.message # "" THEN err.message
                            ELSE "Internal server error"]
      second == IF err.code # Null THEN databaseError(err.code[1]) ELSE first
      third == IF err.name = "JsonWebTokenError"
                 THEN [statusCode |-> 401, message |-> "Invalid token"]
               ELSE IF err.name = "TokenExpiredError"
                 THEN [statusCode |-> 401, message |-> "Token expired"]
               ELSE second
      last == IF err.name = "ValidationError"
                THEN [statusCode |-> 400, message |-> err.message]
                ELSE third IN
  [status |-> last.statusCode, message |-> last.message,
   keys |-> (IF env = "development" THEN {"stack"} ELSE {})
              \cup (IF err.errors # Null THEN {"errors"} ELSE {})]

\* The handler run on the error that reached it.
errorHandler ==
  /\ thrown # Null
  /\ LET response == errorResponse(thrown[1].err, thrown[1].env) IN
     res' = [Reply("errorHandler", "none", "none", response.status, response.message)
               EXCEPT !.data = response.keys]
  /\ UNCHANGED <<now, ticks, cfg, users, held, streak, inflight, admins, adminHeld,
                 refresh_tokens, entities, limits, thrown>>

\* An error of any of the shapes has reached the handler, under any NODE_ENV.
InitErrors ==
  /\ now = 0
  /\ ticks = 0
  /\ cfg = [accessSecret |-> "access-secret", refreshSecret |-> "refresh-secret",
            adminAccessSecret |-> "admin-access-secret"]
  /\ users = [i \in UserIds |-> Null]
  /\ held = [ctl |-> Null, prev |-> Null, svc |-> Null, old |-> {}]
  /\ res = Reply("none", "none", "none", 0, "none")
  /\ streak = [op |-> "none", uid |-> "none", n |-> 0]
  /\ inflight = [s \in Slots |-> idle]
  /\ admins = seedAdmins
  /\ adminHeld = {}
  /\ refresh_tokens = {}
  /\ entities = [k \in Kinds |-> [i \in EntityIds |-> Null]]
  /\ limits = [l \in Limiters |->
                 [k \in Ips |-> [totalHits |-> 0, resetTime |-> 0, registrations |-> 0]]]
  /\ thrown \in {Some([err |-> e, env |-> v]) : e \in Errors, v \in Environments}

NextErrors == errorHandler

SpecErrors == InitErrors /\ [][NextErrors]_vars

\* ---------------------------------------------------------------- C28
\* An error without statusCode that is no database, JWT or validation error.
unexpected(err) ==
  /\ err.statusCode = Null
  /\ err.code = Null
  /\ err.name = "Error"

\* C28: in production the error handler answers an unexpected error with
\* status 500 and a generic message: the body carries neither the message of
\* the error nor its stack.
C28_GenericInProduction ==
  (/\ res.op = "errorHandler"
   /\ thrown[1].env = "production"
   /\ unexpected(thrown[1].err))
    => /\ res.status = 500
       /\ "stack" \notin res.data
       /\ (thrown[1].err.message # "" => res.msg # thrown[1].err.message)

\* --------------------------------- POST /login/verify-otp, requests together
\* The handler of POST /login/verify-otp yields at each await.  Its first
\* await is User.findOne: the instance it resolves to is the request's own
\* copy of the row.
verifyFindOne(s, phoneNumber, otp) ==
  LET op == "verifyLoginOTP"
      found == findByPhone(phoneNumber)
      start == [idle EXCEPT !.tok = Some(otp)]
      r == [Reply(op, phoneNumber, "none", 404, "User not found") EXCEPT !.otp = Some(otp)] IN
  /\ inflight[s].pc = "idle"
  /\ IF found = Null
       THEN Respond(r, users, Null, [inflight EXCEPT ![s] = answered(start, r, Null)])
     ELSE /\ inflight' = [inflight EXCEPT ![s] = [start EXCEPT !.pc = "verifying", !.id = found[1],
                                                               !.user = Some(row(found[1]))]]
          /\ UNCHANGED <<now, ticks, cfg, users, held, res, streak, others>>

\* The rest of the handler: the checks and validateOTP read the instance
\* loaded by findOne, user.increment('otpAttempts') is the UPDATE
\* otp_attempts = otp_attempts + 1 of the stored row, and user.update writes
\* the named columns of the stored row.
verifyIncrement(s) ==
  LET op == "verifyLoginOTP"
      slot == inflight[s]
      id == slot.id
      user == slot.user[1]
      otp == slot.tok[1]
      v == validateOTP(user, otp)
      tokens == generateTokens(id)
      R(status, msg) == [Reply(op, user.phoneNumber, id, status, msg) EXCEPT !.otp = Some(otp)]
      End(r, table, issue) ==
        Respond(r, table, issue, [inflight EXCEPT ![s] = answered(slot, r, issue)]) IN
  /\ slot.pc = "verifying"
  /\ IF ~user.isVerified
       THEN End(R(403, "Please complete registration first"), users, Null)
     ELSE IF ~user.isActive
       THEN End(R(403, "Account is deactivated"), users, Null)
     ELSE IF v.msg # "none"
       THEN End(R(v.status, v.msg), users, Null)
     ELSE IF ~v.ok
       THEN End(R(401, "Invalid OTP"), rowIncrement(users, id), Null)
     ELSE End(issued(R(200, "Login successful"), tokens),
              rowUpdate(users, id,
                        [otpIsUsed |-> TRUE, lastLogin |-> Some(now)] @@ tokenValues(tokens)),
              Some(tokens))

\* Two verify requests in flight together, among requests handled whole.
NextVerify ==
  \/ \E d \in TickSteps : Tick(d)
  \/ \E p \in Phones, o \in Otps : sendRegisterOTP(p, Null, o, TRUE)
  \/ \E p \in Phones, o \in SentOtps : verifyRegisterOTP(p, o)
  \/ \E p \in Phones, o \in Otps : sendLoginOTP(p, o, TRUE)
  \/ \E p \in Phones, o \in Otps : verifyLoginOTP(p, o)
  \/ \E s \in Slots, p \in Phones, o \in Otps : verifyFindOne(s, p, o)
  \/ \E s \in Slots : verifyIncrement(s)

SpecVerify == Init /\ [][NextVerify]_vars

\* C29: the failed-attempt counter of a row never passes MAX_OTP_ATTEMPTS,
\* also when verify requests for the same principal are handled together.
C29_AttemptCeiling ==
  \A i \in Ids : row(i).otpAttempts <= MAX_OTP_ATTEMPTS

\* C30: a row with a code has an expiry for it, and every step that writes
\* the code or the expiry of a row leaves both set or both null, the steps
\* whose SMS dispatch fails after the write included.
C30_OtpPair ==
  [][\A i \in UserIds : users'[i] # Null =>
       LET after == users'[i][1]
           written == \/ users[i] = Null
                      \/ users[i][1].currentOtp # after.currentOtp
                      \/ users[i][1].otpExpiresAt # after.otpExpiresAt IN
       /\ (after.currentOtp # Null => after.otpExpiresAt # Null)
       /\ (written => ((after.currentOtp = Null) <=> (after.otpExpiresAt = Null)))]_vars

\* A login OTP and its expiry written in this step, and the request answered
\* with the 500 of a failed SMS dispatch.
C30_Witness ==
  /\ res.op = "sendLoginOTP"
  /\ res.sms = "failed"
  /\ res.uid \in Ids
  /\ row(res.uid).currentOtp # Null
  /\ row(res.uid).otpExpiresAt = Some(now + OTP_EXPIRY_MINUTES * 60)
  /\ row(res.uid).updatedAt = now

\* ---------------------------------------------------------------- C31
\* The replies of the OTP checks, in the order the code makes them.
validationFailures ==
  {"No OTP found", "OTP already used", "Too many failed attempts", "OTP expired", "Invalid OTP"}

\* C31: a verify request that reaches the OTP checks is answered with the
\* first check that fails, in the order no OTP, used, ceiling, expired,
\* mismatch; a verified, active user's login verify always reaches them.  The
\* four earlier failures leave the table as it was and the mismatch adds one
\* to otpAttempts of the row and changes no other OTP column.
C31_ValidationOrder ==
  [][IF now' = now /\ res' # res /\ res'.op \in VerifyOps /\ res'.uid \in Ids
     THEN LET u == row(res'.uid)
              after == users'[res'.uid][1]
              msg == res'.msg
              noOtp == u.currentOtp = Null \/ u.otpExpiresAt = Null
              used == ~noOtp /\ u.otpIsUsed
              over == ~noOtp /\ ~used /\ u.otpAttempts >= MAX_OTP_ATTEMPTS
              expired == ~noOtp /\ ~used /\ ~over /\ now > u.otpExpiresAt[1]
              mismatch == ~noOtp /\ ~used /\ ~over /\ ~expired /\ u.currentOtp # res'.otp
              reached == \/ msg \in validationFailures
                         \/ res'.status \in {200, 201}
                         \/ msg = "No pending phone update found" IN
          /\ (res'.op = "verifyLoginOTP" /\ u.isVerified /\ u.isActive /\ u.deletedAt = Null
                => reached)
          /\ (reached =>
                /\ (msg = "No OTP found" <=> noOtp)
                /\ (msg = "OTP already used" <=> used)
                /\ (msg = "Too many failed attempts" <=> over)
                /\ (msg = "OTP expired" <=> expired)
                /\ (msg = "Invalid OTP" <=> mismatch)
                /\ (msg \in validationFailures \ {"Invalid OTP"} => users' = users)
                /\ (msg = "Invalid OTP" =>
                      /\ after.otpAttempts = u.otpAttempts + 1
                      /\ [after EXCEPT !.otpAttempts = u.otpAttempts,
                                       !.updatedAt = u.updatedAt] = u))
     ELSE TRUE]_vars

\* A login verify for a row whose code is both used and past its expiry,
\* answered 'already used'.
C31_Witness ==
  /\ res.op = "verifyLoginOTP"
  /\ res.msg = "OTP already used"
  /\ res.uid \in Ids
  /\ row(res.uid).otpIsUsed
  /\ row(res.uid).otpExpiresAt # Null
  /\ now > row(res.uid).otpExpiresAt[1]

\* ---------------------------------------------------------------- C32
\* C32: a row is created by sendRegisterOTP with isVerified false; isVerified
\* turns true only in a verifyRegisterOTP answered 201 whose code was the
\* row's own, unused, unexpired and under the attempt ceiling; no step turns
\* it back to false.
C32_VerifiedByRegistration ==
  [][\A i \in UserIds : users'[i] # Null =>
       LET after == users'[i][1] IN
       IF users[i] = Null
         THEN res'.op = "sendRegisterOTP" /\ ~after.isVerified
       ELSE LET u == users[i][1] IN
         /\ (u.isVerified => after.isVerified)
         /\ (~u.isVerified /\ after.isVerified =>
               /\ res'.op = "verifyRegisterOTP"
               /\ res'.uid = i
               /\ res'.status = 201
               /\ usableOtp(u, res'.otp))]_vars

\* A registration completed: the verify answered 201 and the row is verified.
C32_Witness ==
  /\ res.op = "verifyRegisterOTP"
  /\ res.status = 201
  /\ res.uid \in Ids
  /\ row(res.uid).isVerified
  /\ row(res.uid).otpIsUsed

\* ------------------------------------ token.service.js getRefreshTokenExpiry
\* config.jwt.refreshExpiry is any non-empty string of the environment
\* (process.env.JWT_REFRESH_EXPIRY || '7d'): here a sequence of characters.
MaxTtlLen == 5

TtlDigits == {"1", "7"}

TtlChars == TtlDigits \cup {"s", "m", "h", "d", "a", "y"}

TtlStrings == UNION {[1..n -> TtlChars] : n \in 1..MaxTtlLen}

digit(c) == IF c = "1" THEN 1 ELSE 7

\* parseInt(string): the number written by the longest prefix of digits, NaN
\* when the string does not start with a digit.
RECURSIVE leadingDigits(_, _)
leadingDigits(string, n) ==
  IF string = <<>> \/ Head(string) \notin TtlDigits THEN n
  ELSE leadingDigits(Tail(string), 10 * n + digit(Head(string)))

parseInt(string) ==
  IF string = <<>> \/ Head(string) \notin TtlDigits
    THEN [nan |-> TRUE, n |-> 0]
  ELSE [nan |-> FALSE, n |-> leadingDigits(string, 0)]

\* new Date(now.getTime() + value * factor): Invalid Date when value is NaN.
dateAfter(value, factor) ==
  IF value.nan THEN [valid |-> FALSE, time |-> 0]
  ELSE [valid |-> TRUE, time |-> now + value.n * factor]

\* getRefreshTokenExpiry for a configured string: unit is slice(-1), value is
\* parseInt(slice(0, -1)).
getRefreshTokenExpiryOf(expiryString) ==
  LET unit == expiryString[Len(expiryString)]
      value == parseInt(SubSeq(expiryString, 1, Len(expiryString) - 1)) IN
  IF unit = "s" THEN dateAfter(value, 1)
  ELSE IF unit = "m" THEN dateAfter(value, 60)
  ELSE IF unit = "h" THEN dateAfter(value, 60 * 60)
  ELSE IF unit = "d" THEN dateAfter(value, SecondsPerDay)
  ELSE [valid |-> TRUE, time |-> now + 7 * SecondsPerDay]

\* One call of getRefreshTokenExpiry under the configuration of the process.
expiryCall ==
  /\ res.op = "none"
  /\ LET date == getRefreshTokenExpiryOf(cfg.refreshExpiry) IN
     res' = [Reply("getRefreshTokenExpiry", "none", "none", 0, "none")
               EXCEPT !.data = date]
  /\ UNCHANGED <<now, ticks, cfg, users, held, streak, inflight, admins, adminHeld,
                 refresh_tokens, entities, limits, thrown>>

\* A process started with any JWT_REFRESH_EXPIRY, at either of two instants.
InitExpiry ==
  /\ now \in {0, 1}
  /\ ticks = 0
  /\ \E s \in TtlStrings :
       cfg = [accessSecret |-> "access-secret", refreshSecret |-> "refresh-secret",
              adminAccessSecret |-> "admin-access-secret", refreshExpiry |-> s]
  /\ users = [i \in UserIds |-> Null]
  /\ held = [ctl |-> Null, prev |-> Null, svc |-> Null, old |-> {}]
  /\ res = Reply("none", "none", "none", 0, "none")
  /\ streak = [op |-> "none", uid |-> "none", n |-> 0]
  /\ inflight = [s \in Slots |-> idle]
  /\ admins = seedAdmins
  /\ adminHeld = {}
  /\ refresh_tokens = {}
  /\ InitRest

NextExpiry == expiryCall

SpecExpiry == InitExpiry /\ [][NextExpiry]_vars

\* <n><unit>: one or more digits followed by one of s, m, h, d.
ttlForm(string) ==
  /\ Len(string) >= 2
  /\ \A k \in 1..(Len(string) - 1) : string[k] \in TtlDigits
  /\ string[Len(string)] \in {"s", "m", "h", "d"}

\* C33: the expiry computed for a TTL <n><unit> is now + n units, and the
\* expiry computed for every other TTL is now + 7 days.
C33_ExpiryOfTtl ==
  res.op = "getRefreshTokenExpiry" =>
    LET string == cfg.refreshExpiry
        unit == string[Len(string)]
        n == leadingDigits(SubSeq(string, 1, Len(string) - 1), 0)
        factor == IF unit = "s" THEN 1 ELSE IF unit = "m" THEN 60
                  ELSE IF unit = "h" THEN 60 * 60 ELSE SecondsPerDay IN
    /\ res.data.valid
    /\ res.data.time = IF ttlForm(string) THEN now + n * factor
                       ELSE now + 7 * SecondsPerDay

\* ---------------------------------------------------------------- C34
\* C34: the access token of the pair last returned by verifyRegisterOTP,
\* verifyLoginOTP or refresh, presented before its expiry for an active,
\* verified, non-deleted user, passes the authenticate middleware and
\* resolves to that user.
C34_IssuedTokenAccepted ==
  \A p \in {held.ctl} \ {Null} :
    LET token == p[1].accessToken IN
    (/\ findById(token.id) # Null
     /\ row(token.id).isActive
     /\ row(token.id).isVerified
     /\ now < token.exp)
      => authenticate(Some(token)) = [status |-> 0, msg |-> "none", id |-> token.id]

\* ---------------------------------------------------------------- C35
\* The request answered last issued the OTP now on file for its user.
issuedBy(ops) ==
  /\ res.op \in ops
  /\ res.status = 200
  /\ res.uid \in Ids
  /\ row(res.uid).currentOtp # Null

\* The next request is a verify of one of the operations, for that user, and
\* its OTP passed the checks.
acceptedBy(ops) ==
  /\ res' # res
  /\ res'.op \in ops
  /\ res'.uid = res.uid
  /\ res'.otp = row(res.uid).currentOtp
  /\ \/ res'.status = 200
     \/ res'.msg = "No pending phone update found"

\* C35: a code issued for a phone update or an account deletion is not
\* accepted as a login or reactivation code, and a code issued by the login
\* or resend endpoint is not accepted for a deletion or a phone update.
C35_OtpBoundToFlow ==
  [][/\ ~(issuedBy({"sendPhoneUpdateOTP", "sendDeleteAccountOTP"})
            /\ acceptedBy({"verifyLoginOTP", "reactivateAccount"}))
     /\ ~(issuedBy({"sendLoginOTP", "resendOTP"})
            /\ acceptedBy({"deleteAccount", "verifyPhoneUpdateOTP"}))]_vars

\* ---------------------------------------------------------------- C36
\* C36: of two login verifies that read the same issued OTP from the row, at
\* most one is answered 200 with a token pair.
C36_OneVerifyPerOtp ==
  \A s, t \in Slots :
    (/\ s # t
     /\ inflight[s].pc = "done"
     /\ inflight[t].pc = "done"
     /\ inflight[s].user # Null
     /\ inflight[s].user = inflight[t].user
     /\ inflight[s].status = 200)
      => inflight[t].status # 200

\* ---------------------------------------------------------------- C37
\* C37: a send request whose SMS dispatch fails is answered 500 and leaves
\* the users table as it was before the request.
C37_SmsFailureLeavesStore ==
  [][IF /\ res' # res
        /\ res'.op \in {"sendRegisterOTP", "sendLoginOTP", "resendOTP"}
        /\ res'.sms = "failed"
     THEN res'.status = 500 /\ users' = users
     ELSE TRUE]_vars

\* ---------------------------------------------------------------- C38
\* C38: a request for an OTP is refused with the rate limit's 429 only when
\* an OTP was issued to the user less than OTP_RATE_LIMIT_SECONDS earlier.
C38_WaitOnlyAfterIssuance ==
  [][IF res' # res /\ res'.op \in IssueOps /\ res'.status = 429 /\ res'.uid \in Ids
     THEN /\ row(res'.uid).otpExpiresAt # Null
          /\ now < issuedAt(row(res'.uid)) + OTP_RATE_LIMIT_SECONDS
     ELSE TRUE]_vars

\* ---------------------------------------------------------------- C39
\* The requests that carry a user's access or refresh token, and the login
\* OTP pair.
tokenBearingOps ==
  {"getCurrentUser", "logout", "logoutAll", "deactivateAccount", "sendPhoneUpdateOTP",
   "verifyPhoneUpdateOTP", "sendDeleteAccountOTP", "deleteAccount", "refreshToken",
   "getAllCategories", "sendLoginOTP", "verifyLoginOTP"}

\* The row was deactivated and is neither reactivated nor deleted.
deactivated(user) ==
  ~user.isActive /\ user.deletedAt = Null

\* A deactivated row that stores a refresh token stores it as revoked.
markedRevoked(user) ==
  deactivated(user) /\ user.refreshToken # Null => user.refreshTokenRevokedAt # Null

\* C39: while a verified user is deactivated, no request with the user's
\* tokens and no login OTP request for the user is answered with success, and
\* no step after the deactivation leaves the stored refresh token unrevoked.
C39_DeactivatedLockedOut ==
  [][\A u \in Ids : row(u).isVerified =>
       /\ (deactivated(row(u)) /\ res' # res /\ res'.op \in tokenBearingOps /\ res'.uid = u
             => res'.status \notin {200, 201})
       /\ (markedRevoked(row(u)) /\ (~row(u).isActive \/ res'.op = "deactivateAccount")
             => markedRevoked(users'[u][1]))]_vars

====
